---- MODULE Spec2Model ----
(***************************************************************************)
(* Position & alert monitoring loop, storage and market-data gateway of   *)
(* the crypto signal bot (src/handlers/position_monitor.py,               *)
(* src/database.py, src/scripts/tradingview_scraper.py, src/bot.py).      *)
(*                                                                         *)
(* Every coroutine is cut at its suspension points (await on storage, on  *)
(* the gateway, on asyncio.sleep); one action is one run of a coroutine   *)
(* between two suspensions, as the single-threaded event loop executes it.*)
(***************************************************************************)
EXTENDS Integers, Sequences, FiniteSets, TLC

(***************************************************************************)
(* Bounds of the model.                                                    *)
(***************************************************************************)
MaxOpened == 1      \* positions the front end opens while the monitor runs
MaxPositions == 2   \* rows of a positions table the monitor is started on
MaxAlerts == 1      \* rows of the alerts table
MaxStarts == 2      \* start_monitoring calls on one PositionMonitor
MaxCycles == 2      \* loop iterations that are told apart
MaxAlertRows == 2   \* rows of the alerts table of a run that is about alerts

Prices == {80, 100, 120}
Tasks == 1 .. MaxStarts

\* SQL NULL / Python None, and a present value
Null == << >>
Some(v) == << v >>

(***************************************************************************)
(* Storage schema (database.py, init_database).  A row read back with     *)
(* dict(row) has exactly the table's columns as keys.                     *)
(***************************************************************************)
PositionColumns ==
  {"id", "user_id", "symbol", "position_type", "entry_price", "quantity",
   "take_profit", "stop_loss", "current_price", "pnl", "status", "timeframe",
   "created_at", "closed_at"}

AlertColumns ==
  {"id", "user_id", "symbol", "alert_type", "target_price", "current_price",
   "message", "is_triggered", "created_at", "triggered_at"}

\* what the front end asks for when it opens a position or sets an alert
PositionRequests ==
  { [user_id |-> 501, symbol |-> "BTCUSDT", direction |-> "LONG",
     entry_price |-> 100, take_profit |-> 110, stop_loss |-> 90],
    [user_id |-> 501, symbol |-> "BTCUSDT", direction |-> "SHORT",
     entry_price |-> 100, take_profit |-> 90, stop_loss |-> 110],
    [user_id |-> 501, symbol |-> "ETHUSDT", direction |-> "LONG",
     entry_price |-> 100, take_profit |-> 90, stop_loss |-> 110],
    [user_id |-> 501, symbol |-> "ETHUSDT", direction |-> "SHORT",
     entry_price |-> 100, take_profit |-> 110, stop_loss |-> 90] }

AlertRequests ==
  { [user_id |-> 501, symbol |-> "BTCUSDT", alert_type |-> "price_above",
     target_price |-> 100],
    [user_id |-> 501, symbol |-> "ETHUSDT", alert_type |-> "price_below",
     target_price |-> 100] }
\* status values DatabaseManager.close_position is called with
CloseStatuses == {"closed"}
ClosePrices == {120}

\* str.lower() on the two direction names
Lower(s) == IF s = "LONG" THEN "long" ELSE IF s = "SHORT" THEN "short" ELSE s

VARIABLES
  positions,      \* table positions: sequence of rows, row i has id i
  alerts,         \* table alerts: sequence of rows, row i has id i
  notifications,  \* messages delivered by client.send_message
  is_monitoring,  \* PositionMonitor.is_monitoring
  pc,             \* pc[t]: where start_monitoring task t is suspended
  loaded,         \* loaded[t]: rows returned by the pass's storage read
  symbolsQ,       \* symbolsQ[t]: symbols_to_check still to iterate
  curSymbol,      \* curSymbol[t]: symbol of the current loop iteration
  curPrice,       \* curPrice[t]: data['price']['current'] of its snapshot
  evalQ,          \* evalQ[t]: symbol_positions / symbol_alerts still to do
  fetchLog,       \* fetchLog[t]: get_market_data calls of the current cycle
  evalLog,        \* evalLog[t]: evaluations made in the current cycle
  effects,        \* effects[t]: storage writes and notifications of the cycle
  atStart,        \* atStart[t]: the cycle's number (counted up to MaxCycles) and
                  \* the closed positions / triggered alerts when it began
  stopCalled,     \* stop_monitoring called since the last start_monitoring call
  startsLeft,     \* start_monitoring calls the environment may still make
  manualResult,   \* last close_position_manually call: <<id, was open,
                  \* returned, storage worked>>
  signals,        \* table signals_history: sequence of rows
  gw,             \* the get_market_data call under analysis
  call            \* the call of a pure function under analysis

mvars == << positions, alerts, notifications, is_monitoring, pc, loaded,
            symbolsQ, curSymbol, curPrice, evalQ, fetchLog, evalLog, effects,
            atStart, stopCalled, startsLeft, manualResult, signals >>
vars == << positions, alerts, notifications, is_monitoring, pc, loaded,
           symbolsQ, curSymbol, curPrice, evalQ, fetchLog, evalLog, effects,
           atStart, stopCalled, startsLeft, manualResult, signals, gw,
                  call >>

taskLocals == << loaded, symbolsQ, curSymbol, curPrice, evalQ, fetchLog,
                 evalLog, effects, atStart >>

(***************************************************************************)
(* Sequence helpers.                                                       *)
(***************************************************************************)
Range(s) == { s[i] : i \in DOMAIN s }

RECURSIVE SelectRows(_, _)
\* [x for x in rows if x['symbol'] == symbol], order kept
SelectRows(rows, symbol) ==
  IF rows = << >> THEN << >>
  ELSE IF Head(rows).symbol = symbol
       THEN << Head(rows) >> \o SelectRows(Tail(rows), symbol)
       ELSE SelectRows(Tail(rows), symbol)

\* all orders in which a set of at most Cardinality(S) elements can be listed
Orderings(S) ==
  { q \in [1 .. Cardinality(S) -> S] : \A i, j \in 1 .. Cardinality(S) :
                                         i # j => q[i] # q[j] }

GwIdle == [pc |-> "idle"]
NoCall == [fn |-> "none"]

(***************************************************************************)
(* Storage: DatabaseManager (database.py).  Every method opens its own    *)
(* connection, runs one statement and commits; an sqlite error is caught  *)
(* and turned into the method's failure value.                             *)
(***************************************************************************)

\* INSERT INTO positions (...) with the column defaults of the schema
add_position(tbl, user_id, symbol, position_type, entry_price, quantity, timeframe, take_profit, stop_loss) ==
  Append(tbl,
         [id |-> Len(tbl) + 1, user_id |-> user_id, symbol |-> symbol,
          position_type |-> position_type, entry_price |-> entry_price,
          quantity |-> quantity, take_profit |-> take_profit,
          stop_loss |-> stop_loss, current_price |-> Null, pnl |-> 0,
          status |-> "open", timeframe |-> timeframe,
          created_at |-> Len(tbl) + 1, closed_at |-> Null])

\* INSERT INTO alerts (...) with the column defaults of the schema
add_alert(tbl, user_id, symbol, alert_type, target_price, message) ==
  Append(tbl,
         [id |-> Len(tbl) + 1, user_id |-> user_id, symbol |-> symbol,
          alert_type |-> alert_type, target_price |-> target_price,
          current_price |-> Null, message |-> message, is_triggered |-> 0,
          created_at |-> Len(tbl) + 1, triggered_at |-> Null])

\* INSERT INTO signals_history (...): the row's key and what was signalled
add_signal(tbl, symbol, timeframe, signal_type, price) ==
  Append(tbl, [id |-> Len(tbl) + 1, symbol |-> symbol, timeframe |-> timeframe,
               signal_type |-> signal_type, price |-> price])

\* the SELECT without its WHERE clause
get_all_positions == positions

\* SELECT * FROM positions WHERE status = 'open' ORDER BY created_at ASC
get_all_open_positions ==
  SelectSeq(positions, LAMBDA r : r.status = "open")

\* SELECT * FROM alerts WHERE is_triggered = 0 ORDER BY created_at ASC
get_all_active_alerts ==
  SelectSeq(alerts, LAMBDA r : r.is_triggered = 0)

get_active_alerts == get_all_active_alerts

\* UPDATE positions SET k1 = ?, ... WHERE id = ?   (kwargs: a record).
\* A kwarg that is no column of the table makes sqlite raise; the statement
\* changes nothing and update_position returns False.  db_ok = FALSE is any
\* other storage failure.
update_position(tbl, position_id, kwargs, db_ok) ==
  IF db_ok /\ DOMAIN kwargs \subseteq PositionColumns
  THEN [ok |-> TRUE,
        table |-> [i \in DOMAIN tbl |->
                     IF tbl[i].id = position_id
                     THEN [c \in DOMAIN tbl[i] |->
                             IF c \in DOMAIN kwargs THEN kwargs[c] ELSE tbl[i][c]]
                     ELSE tbl[i]]]
  ELSE [ok |-> FALSE, table |-> tbl]

\* DatabaseManager.close_position: SELECT the row by id, compute the PnL from
\* position_type, UPDATE current_price, pnl, status, closed_at
db_close_position(tbl, position_id, close_price, status, db_ok) ==
  IF ~db_ok \/ position_id \notin DOMAIN tbl
  THEN [ok |-> FALSE, table |-> tbl]
  ELSE LET position == tbl[position_id]
           pnl == IF position.position_type = "long"
                  THEN (close_price - position.entry_price) * position.quantity
                  ELSE (position.entry_price - close_price) * position.quantity
       IN [ok |-> TRUE,
           table |-> [tbl EXCEPT ![position_id] =
                        [@ EXCEPT !.current_price = Some(close_price),
                                  !.pnl = pnl,
                                  !.status = status,
                                  !.closed_at = Some("CURRENT_TIMESTAMP")]]]

\* UPDATE alerts SET is_triggered = 1, current_price = ?, triggered_at = now
trigger_alert(tbl, alert_id, current_price, db_ok) ==
  IF ~db_ok
  THEN [ok |-> FALSE, table |-> tbl]
  ELSE [ok |-> TRUE,
        table |-> [i \in DOMAIN tbl |->
                     IF tbl[i].id = alert_id
                     THEN [tbl[i] EXCEPT !.is_triggered = 1,
                                         !.current_price = Some(current_price),
                                         !.triggered_at = Some("CURRENT_TIMESTAMP")]
                     ELSE tbl[i]]]

(***************************************************************************)
(* PositionMonitor (handlers/position_monitor.py): evaluation of one      *)
(* loaded row.  A read position['k'] of a key the dict does not have      *)
(* raises KeyError; each method's try/except logs it and returns.         *)
(*                                                                         *)
(* An evaluation yields the new positions (or alerts) table, the ids the  *)
(* storage wrote, the messages handed to client.send_message, and which   *)
(* branch was taken.                                                       *)
(***************************************************************************)
KeyError(row, keys) == ~(keys \subseteq DOMAIN row)

NoEffect(tbl, outcome) ==
  [table |-> tbl, wrote |-> {}, notify |-> {}, outcome |-> outcome]

\* the PnL percentage with the LONG formula for both directions
pnl_percentage_long_only(direction, current_price, entry_price) ==
  ((current_price - entry_price) * 10000) \div entry_price

\* ((current - entry) / entry) * 100 for LONG, ((entry - current) / entry) * 100
\* otherwise, in hundredths of a percent
pnl_percentage(direction, current_price, entry_price) ==
  IF direction = "LONG"
  THEN ((current_price - entry_price) * 10000) \div entry_price
  ELSE ((entry_price - current_price) * 10000) \div entry_price

\* (pnl_percentage / 100) * (quantity * entry_price)
pnl_value(pct, quantity, entry_price) == (pct * quantity * entry_price) \div 10000

\* PositionMonitor.close_position; send_position_notification is called
\* whatever update_position returned
close_position(tbl, position, current_price, status, db_ok) ==
  IF KeyError(position, {"id", "user_id", "symbol", "direction", "entry_price", "quantity"})
  THEN NoEffect(tbl, "error")
  ELSE LET pct == pnl_percentage(position.direction, current_price, position.entry_price)
           upd == update_position(tbl, position.id,
                    [current_price |-> Some(current_price),
                     pnl |-> pnl_value(pct, position.quantity, position.entry_price),
                     pnl_percentage |-> pct,
                     status |-> status,
                     closed_at |-> Some("now")], db_ok)
       IN [table |-> upd.table,
           wrote |-> IF upd.ok THEN {position.id} ELSE {},
           notify |-> {[to |-> position.user_id, about |-> "position",
                        id |-> position.id, status |-> status]},
           outcome |-> status]

\* the last statement of check_position_levels: no level was hit
update_levels(tbl, position, current_price, db_ok) ==
  IF KeyError(position, {"quantity"})
  THEN NoEffect(tbl, "error")
  ELSE LET pct == pnl_percentage(position.direction, current_price, position.entry_price)
           upd == update_position(tbl, position.id,
                    [current_price |-> Some(current_price),
                     pnl |-> pnl_value(pct, position.quantity, position.entry_price),
                     pnl_percentage |-> pct], db_ok)
       IN [table |-> upd.table,
           wrote |-> IF upd.ok THEN {position.id} ELSE {},
           notify |-> {},
           outcome |-> "updated"]

\* check_position_levels written against the columns the table has: the
\* direction read from position_type, the write limited to existing columns
check_position_levels_by_type(tbl, position, current_price, db_ok) ==
  LET tp == IF position.position_type = "long"
            THEN current_price >= position.take_profit
            ELSE current_price <= position.take_profit
      sl == IF position.position_type = "long"
            THEN current_price <= position.stop_loss
            ELSE current_price >= position.stop_loss
      status == IF tp THEN "TP_HIT" ELSE IF sl THEN "SL_HIT" ELSE "updated"
      upd == IF tp \/ sl
             THEN update_position(tbl, position.id,
                    [current_price |-> Some(current_price), status |-> status,
                     closed_at |-> Some("now")], db_ok)
             ELSE update_position(tbl, position.id,
                    [current_price |-> Some(current_price)], db_ok)
  IN [table |-> upd.table,
      wrote |-> IF upd.ok THEN {position.id} ELSE {},
      notify |-> IF tp \/ sl
                 THEN {[to |-> position.user_id, about |-> "position",
                        id |-> position.id, status |-> status]}
                 ELSE {},
      outcome |-> status]

\* PositionMonitor.check_position_levels
check_position_levels(tbl, position, current_price, db_ok) ==
  IF KeyError(position, {"id", "user_id", "symbol", "direction", "entry_price", "take_profit", "stop_loss"})
  THEN NoEffect(tbl, "error")
  ELSE IF position.direction = "LONG"
       THEN IF current_price >= position.take_profit
            THEN close_position(tbl, position, current_price, "TP_HIT", db_ok)
            ELSE IF current_price <= position.stop_loss
                 THEN close_position(tbl, position, current_price, "SL_HIT", db_ok)
                 ELSE update_levels(tbl, position, current_price, db_ok)
       ELSE IF current_price <= position.take_profit
            THEN close_position(tbl, position, current_price, "TP_HIT", db_ok)
            ELSE IF current_price >= position.stop_loss
                 THEN close_position(tbl, position, current_price, "SL_HIT", db_ok)
                 ELSE update_levels(tbl, position, current_price, db_ok)

\* check_alert_condition with exclusive boundaries
check_alert_condition_exclusive(alert, current_price) ==
  IF KeyError(alert, {"target_price", "condition"})
  THEN "KeyError"
  ELSE IF alert.condition = "ABOVE"
       THEN IF current_price > alert.target_price THEN "True" ELSE "False"
       ELSE IF alert.condition = "BELOW"
            THEN IF current_price < alert.target_price THEN "True" ELSE "False"
            ELSE "False"

\* PositionMonitor.check_alert_condition: "KeyError" when it raises
check_alert_condition(alert, current_price) ==
  IF KeyError(alert, {"target_price", "condition"})
  THEN "KeyError"
  ELSE IF alert.condition = "ABOVE"
       THEN IF current_price >= alert.target_price THEN "True" ELSE "False"
       ELSE IF alert.condition = "BELOW"
            THEN IF current_price <= alert.target_price THEN "True" ELSE "False"
            ELSE "False"

\* PositionMonitor.trigger_price_alert; the message is sent whatever
\* trigger_alert returned
trigger_price_alert(tbl, alert, current_price, db_ok) ==
  IF KeyError(alert, {"id", "user_id", "symbol", "target_price", "condition"})
  THEN NoEffect(tbl, "error")
  ELSE LET upd == trigger_alert(tbl, alert.id, current_price, db_ok)
       IN [table |-> upd.table,
           wrote |-> IF upd.ok THEN {alert.id} ELSE {},
           notify |-> {[to |-> alert.user_id, about |-> "alert",
                        id |-> alert.id, status |-> "TRIGGERED"]},
           outcome |-> "triggered"]

\* list(set(row['symbol'] for row in rows)): the iteration order of a set is
\* not specified, so every order is possible
symbols_to_check(rows) == Orderings({ r.symbol : r \in Range(rows) })

\* what scraper.get_market_data(symbol, '1m') can return to the monitor: a
\* snapshot with some current price (real or synthetic), never None
MarketData(symbol) ==
  { [symbol |-> symbol, price |-> [current |-> p]] : p \in Prices }

\* a pass that stores a signal for every snapshot it gets
use_snapshot_and_record(history, data) ==
  [current_price |-> data.price.current,
   history |-> add_signal(history, data.symbol, "1m", "NEUTRAL", data.price.current)]

\* what a pass does with the snapshot get_market_data returned:
\* current_price = data['price']['current'], and nothing else -- the
\* indicators are not read, no signal is computed, signals_history is left
use_snapshot(history, data) ==
  [current_price |-> data.price.current, history |-> history]

\* a manual close that updates whatever row has the id, open or not
close_position_manually_any_row(tbl, open_rows, position_id, current_price, db_ok) ==
  update_position(tbl, position_id,
                  [current_price |-> Some(current_price),
                   status |-> "CLOSED_MANUAL",
                   closed_at |-> Some("now")], db_ok)

\* PositionManager.close_position_manually, given the rows its storage read
\* returned
close_position_manually(tbl, open_rows, position_id, current_price, db_ok) ==
  LET found == SelectSeq(open_rows, LAMBDA r : r.id = position_id)
  IN IF found = << >>
     THEN [ok |-> FALSE, table |-> tbl]
     ELSE LET position == Head(found)
          IN IF KeyError(position, {"direction", "entry_price", "quantity"})
             THEN [ok |-> FALSE, table |-> tbl]
             ELSE LET pct == pnl_percentage(position.direction, current_price, position.entry_price)
                  IN update_position(tbl, position_id,
                       [current_price |-> Some(current_price),
                        pnl |-> pnl_value(pct, position.quantity, position.entry_price),
                        pnl_percentage |-> pct,
                        status |-> "CLOSED_MANUAL",
                        closed_at |-> Some("now")], db_ok)

(***************************************************************************)
(* Operations the front end invokes on storage and on PositionManager.     *)
(***************************************************************************)

\* PositionManager.create_position: position_type = direction.lower(),
\* quantity 1.0, timeframe '1h'
create_position(tbl, rq) ==
  add_position(tbl, rq.user_id, rq.symbol, Lower(rq.direction), rq.entry_price,
               1, "1h", rq.take_profit, rq.stop_loss)

CreatePosition ==
  /\ Len(positions) < MaxOpened
  /\ \E rq \in PositionRequests : positions' = create_position(positions, rq)
  /\ UNCHANGED << alerts, notifications, is_monitoring, pc, taskLocals,
                  stopCalled, startsLeft, manualResult, signals, gw,
                  call >>

\* DatabaseManager.add_alert
AddAlert ==
  /\ Len(alerts) < MaxAlerts
  /\ \E rq \in AlertRequests :
       alerts' = add_alert(alerts, rq.user_id, rq.symbol, rq.alert_type,
                           rq.target_price, Null)
  /\ UNCHANGED << positions, notifications, is_monitoring, pc, taskLocals,
                  stopCalled, startsLeft, manualResult, signals, gw,
                  call >>

\* PositionManager.close_position_manually(position_id, current_price); the
\* call, whether the id was an open position, and what it returned are kept
ClosePositionManually ==
  /\ \E position_id \in 1 .. MaxOpened, current_price \in Prices,
        read_ok \in BOOLEAN, db_ok \in BOOLEAN :
       LET open_rows == IF read_ok THEN get_all_open_positions ELSE << >>
           r == close_position_manually(positions, open_rows, position_id,
                                        current_price, db_ok)
           was_open == /\ position_id \in DOMAIN positions
                       /\ positions[position_id].status = "open"
       IN /\ positions' = r.table
          /\ manualResult' = << position_id, was_open, r.ok, read_ok /\ db_ok >>
  /\ UNCHANGED << alerts, notifications, is_monitoring, pc, taskLocals,
                  stopCalled, startsLeft, signals, gw, call >>

\* DatabaseManager.close_position(position_id, close_price, status)
DbClosePosition ==
  /\ \E position_id \in DOMAIN positions, close_price \in ClosePrices,
        status \in CloseStatuses :
       positions' = db_close_position(positions, position_id, close_price,
                                      status, TRUE).table
  /\ UNCHANGED << alerts, notifications, is_monitoring, pc, taskLocals,
                  stopCalled, startsLeft, manualResult, signals, gw,
                  call >>

\* DatabaseManager.trigger_alert(alert_id, current_price)
DbTriggerAlert ==
  /\ \E alert_id \in DOMAIN alerts :
       alerts' = trigger_alert(alerts, alert_id, alerts[alert_id].target_price,
                               TRUE).table
  /\ UNCHANGED << positions, notifications, is_monitoring, pc, taskLocals,
                  stopCalled, startsLeft, manualResult, signals, gw,
                  call >>

(***************************************************************************)
(* Initial states.                                                         *)
(***************************************************************************)
InitMonitor ==
  /\ notifications = {}
  /\ manualResult = << >>
  /\ is_monitoring = FALSE
  /\ pc = [t \in Tasks |-> "none"]
  /\ loaded = [t \in Tasks |-> << >>]
  /\ symbolsQ = [t \in Tasks |-> << >>]
  /\ curSymbol = [t \in Tasks |-> Null]
  /\ curPrice = [t \in Tasks |-> Null]
  /\ evalQ = [t \in Tasks |-> << >>]
  /\ fetchLog = [t \in Tasks |-> << >>]
  /\ evalLog = [t \in Tasks |-> {}]
  /\ effects = [t \in Tasks |-> [writes |-> {}, notifs |-> {}]]
  /\ atStart = [t \in Tasks |-> [cycle |-> 0, closed |-> {}, triggered |-> {}]]
  /\ stopCalled = FALSE

\* a fresh database and a constructed PositionMonitor; bot.py schedules
\* start_monitoring once
Init ==
  /\ positions = << >>
  /\ alerts = << >>
  /\ signals = << >>
  /\ InitMonitor
  /\ startsLeft = 1
  /\ gw = GwIdle
  /\ call = NoCall

RECURSIVE PositionTables(_)
\* the positions tables of at most n rows that create_position and
\* DatabaseManager.close_position can have produced
PositionTables(n) ==
  IF n = 0 THEN { << >> }
  ELSE LET shorter == PositionTables(n - 1)
           full == { tbl \in shorter : Len(tbl) = n - 1 }
           added == { create_position(tbl, rq) : tbl \in full, rq \in PositionRequests }
           closed == { db_close_position(tbl, n, p, st, TRUE).table :
                         tbl \in added, p \in ClosePrices, st \in CloseStatuses }
       IN shorter \cup added \cup closed

RECURSIVE AlertTables(_)
\* the alerts tables of at most n rows that add_alert and trigger_alert can
\* have produced
AlertTables(n) ==
  IF n = 0 THEN { << >> }
  ELSE LET shorter == AlertTables(n - 1)
           full == { tbl \in shorter : Len(tbl) = n - 1 }
           added == { add_alert(tbl, rq.user_id, rq.symbol, rq.alert_type,
                                rq.target_price, Null) :
                        tbl \in full, rq \in AlertRequests }
           fired == { trigger_alert(tbl, n, tbl[n].target_price, TRUE).table :
                        tbl \in added }
       IN shorter \cup added \cup fired

\* the monitor is started once on a database that already holds rows
InitCycle ==
  /\ positions \in PositionTables(MaxPositions)
  /\ alerts \in AlertTables(MaxAlerts)
  /\ signals = << >>
  /\ InitMonitor
  /\ startsLeft = 1
  /\ gw = GwIdle
  /\ call = NoCall

\* the signal history the analyze command can have left: empty, or the
\* signal of one analysis
SignalTables ==
  { << >> } \cup { add_signal(<< >>, "BTCUSDT", "1h", signal_type, 100) :
                     signal_type \in {"LONG", "NEUTRAL"} }

\* the monitor is started once on a database that holds at most one position
\* and up to MaxAlertRows alerts, after the front end may have stored a signal
InitAlerts ==
  /\ positions \in PositionTables(1)
  /\ alerts \in AlertTables(MaxAlertRows)
  /\ signals \in SignalTables
  /\ InitMonitor
  /\ startsLeft = 1
  /\ gw = GwIdle
  /\ call = NoCall

\* start_monitoring may be called MaxStarts times on a database that holds
\* one open position and one active alert on the same symbol
InitRestart ==
  /\ positions \in { tbl \in PositionTables(1) :
                        Len(tbl) = 1 /\ tbl[1].status = "open" /\ tbl[1].symbol = "BTCUSDT" }
  /\ alerts \in { tbl \in AlertTables(1) :
                     Len(tbl) = 1 /\ tbl[1].is_triggered = 0 /\ tbl[1].symbol = "BTCUSDT" }
  /\ signals = << >>
  /\ InitMonitor
  /\ startsLeft = MaxStarts
  /\ gw = GwIdle
  /\ call = NoCall

(***************************************************************************)
(* PositionMonitor: start and stop.                                        *)
(***************************************************************************)

\* asyncio.create_task(self.monitor.start_monitoring()): the coroutine is
\* scheduled and has not run yet
StartMonitoringCall ==
  /\ startsLeft > 0
  /\ \E t \in Tasks :
       /\ pc[t] = "none"
       /\ \A u \in Tasks : u < t => pc[u] # "none"
       /\ pc' = [pc EXCEPT ![t] = "created"]
  /\ startsLeft' = startsLeft - 1
  /\ stopCalled' = FALSE
  /\ UNCHANGED << positions, alerts, notifications, is_monitoring, taskLocals,
                  manualResult, signals, gw,
                  call >>

\* PositionMonitor.stop_monitoring
StopMonitoring ==
  /\ is_monitoring' = FALSE
  /\ stopCalled' = TRUE
  /\ UNCHANGED << positions, alerts, notifications, pc, taskLocals,
                  startsLeft, manualResult, signals, gw,
                  call >>

(***************************************************************************)
(* PositionMonitor.start_monitoring, task t.                               *)
(***************************************************************************)

\* a loop iteration begins: the records of the previous cycle are dropped
BeginCycle(t) ==
  /\ pc' = [pc EXCEPT ![t] = "cp_load"]
  /\ fetchLog' = [fetchLog EXCEPT ![t] = << >>]
  /\ evalLog' = [evalLog EXCEPT ![t] = {}]
  /\ effects' = [effects EXCEPT ![t] = [writes |-> {}, notifs |-> {}]]
  /\ atStart' = [atStart EXCEPT ![t] =
                   [cycle |-> IF @.cycle < MaxCycles THEN @.cycle + 1 ELSE @.cycle,
                    closed |-> { i \in DOMAIN positions : positions[i].status # "open" },
                    triggered |-> { i \in DOMAIN alerts : alerts[i].is_triggered # 0 }]]
  /\ UNCHANGED << loaded, symbolsQ, curSymbol, curPrice, evalQ >>

\* `if` in place of `while`: the body runs once
LoopTestOnce(flag) == "returned"

\* the pc after `while self.is_monitoring` was evaluated
LoopTest(flag) == IF flag THEN "cp_load" ELSE "returned"

\* first run of the coroutine: is_monitoring = True, the loop is entered and
\* check_positions suspends on its storage read
LoopEnter(t) ==
  /\ pc[t] = "created"
  /\ is_monitoring' = TRUE
  /\ BeginCycle(t)
  /\ UNCHANGED << positions, alerts, notifications, stopCalled, startsLeft,
                  manualResult, signals, gw,
                  call >>

\* check_positions: positions = await self.db.get_all_open_positions(), the
\* symbols to check, async with TradingViewScraper()
CheckPositionsLoad(t) ==
  /\ pc[t] = "cp_load"
  /\ \E read_ok \in BOOLEAN, enter_ok \in BOOLEAN :
       LET rows == IF read_ok THEN get_all_open_positions ELSE << >>
       IN IF rows = << >> \/ ~enter_ok
          THEN /\ pc' = [pc EXCEPT ![t] = "ca_load"]
               /\ loaded' = [loaded EXCEPT ![t] = << >>]
               /\ symbolsQ' = [symbolsQ EXCEPT ![t] = << >>]
          ELSE /\ pc' = [pc EXCEPT ![t] = "cp_next"]
               /\ loaded' = [loaded EXCEPT ![t] = rows]
               /\ \E order \in symbols_to_check(rows) :
                    symbolsQ' = [symbolsQ EXCEPT ![t] = order]
  /\ UNCHANGED << positions, alerts, notifications, is_monitoring, curSymbol,
                  curPrice, evalQ, fetchLog, evalLog, effects, atStart,
                  stopCalled, startsLeft, manualResult, signals, gw,
                  call >>

\* for symbol in symbols_to_check: data = await scraper.get_market_data(...)
\* is issued; after the last symbol the scraper is closed and the pass ends
CheckPositionsNext(t) ==
  /\ pc[t] = "cp_next"
  /\ IF symbolsQ[t] = << >>
     THEN /\ pc' = [pc EXCEPT ![t] = "ca_load"]
          /\ loaded' = [loaded EXCEPT ![t] = << >>]
          /\ UNCHANGED << symbolsQ, curSymbol, fetchLog >>
     ELSE /\ pc' = [pc EXCEPT ![t] = "cp_wait"]
          /\ curSymbol' = [curSymbol EXCEPT ![t] = Some(Head(symbolsQ[t]))]
          /\ symbolsQ' = [symbolsQ EXCEPT ![t] = Tail(@)]
          /\ fetchLog' = [fetchLog EXCEPT ![t] =
                            Append(@, [pass |-> "positions", symbol |-> Head(symbolsQ[t]),
                                       delayed |-> FALSE])]
          /\ UNCHANGED loaded
  /\ UNCHANGED << positions, alerts, notifications, is_monitoring, curPrice,
                  evalQ, evalLog, effects, atStart, stopCalled, startsLeft,
                  manualResult, signals, gw,
                  call >>

\* get_market_data returns: current_price and symbol_positions are set
CheckPositionsData(t) ==
  /\ pc[t] = "cp_wait"
  /\ \E data \in MarketData(curSymbol[t][1]) :
       IF data = Null
       THEN /\ pc' = [pc EXCEPT ![t] = "cp_next"]
            /\ UNCHANGED << curPrice, evalQ, signals >>
       ELSE /\ pc' = [pc EXCEPT ![t] = "cp_eval"]
            /\ curPrice' = [curPrice EXCEPT ![t] =
                              Some(use_snapshot(signals, data).current_price)]
            /\ signals' = use_snapshot(signals, data).history
            /\ evalQ' = [evalQ EXCEPT ![t] = SelectRows(loaded[t], curSymbol[t][1])]
  /\ UNCHANGED << positions, alerts, notifications, is_monitoring, loaded,
                  symbolsQ, curSymbol, fetchLog, evalLog, effects, atStart,
                  stopCalled, startsLeft, manualResult, gw, call >>

\* await self.check_position_levels(position, current_price) for the next
\* position of the symbol; after the last one, await asyncio.sleep(1)
CheckPositionLevels(t) ==
  /\ pc[t] = "cp_eval"
  /\ IF evalQ[t] = << >>
     THEN /\ pc' = [pc EXCEPT ![t] = "cp_delay"]
          /\ UNCHANGED << positions, notifications, evalQ, evalLog, effects >>
     ELSE \E db_ok \in BOOLEAN, send_ok \in BOOLEAN :
            LET position == Head(evalQ[t])
                e == check_position_levels(positions, position, curPrice[t][1], db_ok)
                sent == IF send_ok THEN e.notify ELSE {}
            IN /\ positions' = e.table
               /\ notifications' = notifications \cup sent
               /\ evalQ' = [evalQ EXCEPT ![t] = Tail(@)]
               /\ evalLog' = [evalLog EXCEPT ![t] =
                                @ \cup {[about |-> "position", id |-> position.id,
                                         price |-> curPrice[t][1],
                                         outcome |-> e.outcome]}]
               /\ effects' = [effects EXCEPT ![t] =
                                [writes |-> @.writes \cup { << "position", i >> : i \in e.wrote },
                                 notifs |-> @.notifs \cup { << n.about, n.id >> : n \in sent }]]
               /\ pc' = [pc EXCEPT ![t] = IF Tail(evalQ[t]) = << >> THEN "cp_delay" ELSE "cp_eval"]
  /\ UNCHANGED << alerts, is_monitoring, loaded, symbolsQ, curSymbol, curPrice,
                  fetchLog, atStart, stopCalled, startsLeft, manualResult, signals, gw,
                  call >>

\* await asyncio.sleep(1), the delay between symbols of either pass, is over;
\* the call it follows is marked
SymbolDelay(t) ==
  /\ pc[t] \in {"cp_delay", "ca_delay"}
  /\ pc' = [pc EXCEPT ![t] = IF pc[t] = "cp_delay" THEN "cp_next" ELSE "ca_next"]
  /\ fetchLog' = [fetchLog EXCEPT ![t] = [@ EXCEPT ![Len(@)].delayed = TRUE]]
  /\ UNCHANGED << positions, alerts, notifications, is_monitoring, loaded,
                  symbolsQ, curSymbol, curPrice, evalQ, evalLog, effects, atStart,
                  stopCalled, startsLeft, manualResult, signals, gw,
                  call >>

\* check_price_alerts: alerts = await self.db.get_active_alerts(), the symbols
\* to check, async with TradingViewScraper(); with nothing to check the pass
\* returns and start_monitoring sleeps check_interval
CheckAlertsLoad(t) ==
  /\ pc[t] = "ca_load"
  /\ \E read_ok \in BOOLEAN, enter_ok \in BOOLEAN :
       LET rows == IF read_ok THEN get_active_alerts ELSE << >>
       IN IF rows = << >> \/ ~enter_ok
          THEN /\ pc' = [pc EXCEPT ![t] = "sleep"]
               /\ loaded' = [loaded EXCEPT ![t] = << >>]
               /\ symbolsQ' = [symbolsQ EXCEPT ![t] = << >>]
          ELSE /\ pc' = [pc EXCEPT ![t] = "ca_next"]
               /\ loaded' = [loaded EXCEPT ![t] = rows]
               /\ \E order \in symbols_to_check(rows) :
                    symbolsQ' = [symbolsQ EXCEPT ![t] = order]
  /\ UNCHANGED << positions, alerts, notifications, is_monitoring, curSymbol,
                  curPrice, evalQ, fetchLog, evalLog, effects, atStart,
                  stopCalled, startsLeft, manualResult, signals, gw,
                  call >>

CheckAlertsNext(t) ==
  /\ pc[t] = "ca_next"
  /\ IF symbolsQ[t] = << >>
     THEN /\ pc' = [pc EXCEPT ![t] = "sleep"]
          /\ loaded' = [loaded EXCEPT ![t] = << >>]
          /\ UNCHANGED << symbolsQ, curSymbol, fetchLog >>
     ELSE /\ pc' = [pc EXCEPT ![t] = "ca_wait"]
          /\ curSymbol' = [curSymbol EXCEPT ![t] = Some(Head(symbolsQ[t]))]
          /\ symbolsQ' = [symbolsQ EXCEPT ![t] = Tail(@)]
          /\ fetchLog' = [fetchLog EXCEPT ![t] =
                            Append(@, [pass |-> "alerts", symbol |-> Head(symbolsQ[t]),
                                       delayed |-> FALSE])]
          /\ UNCHANGED loaded
  /\ UNCHANGED << positions, alerts, notifications, is_monitoring, curPrice,
                  evalQ, evalLog, effects, atStart, stopCalled, startsLeft,
                  manualResult, signals, gw,
                  call >>

CheckAlertsData(t) ==
  /\ pc[t] = "ca_wait"
  /\ \E data \in MarketData(curSymbol[t][1]) :
       IF data = Null
       THEN /\ pc' = [pc EXCEPT ![t] = "ca_next"]
            /\ UNCHANGED << curPrice, evalQ, signals >>
       ELSE /\ pc' = [pc EXCEPT ![t] = "ca_eval"]
            /\ curPrice' = [curPrice EXCEPT ![t] =
                              Some(use_snapshot(signals, data).current_price)]
            /\ signals' = use_snapshot(signals, data).history
            /\ evalQ' = [evalQ EXCEPT ![t] = SelectRows(loaded[t], curSymbol[t][1])]
  /\ UNCHANGED << positions, alerts, notifications, is_monitoring, loaded,
                  symbolsQ, curSymbol, fetchLog, evalLog, effects, atStart,
                  stopCalled, startsLeft, manualResult, gw, call >>

\* a per-symbol handler that gives the pass up
symbol_handler_ends_pass(pass) == IF pass = "positions" THEN "ca_load" ELSE "sleep"

\* except Exception as e: logger.error(...); continue -- the handler around
\* the work on one symbol: the loop goes on with the next symbol
symbol_handler(pass) == IF pass = "positions" THEN "cp_next" ELSE "ca_next"

\* if self.check_alert_condition(alert, current_price):
\*     await self.trigger_price_alert(alert, current_price)
\* for the next alert of the symbol.  check_alert_condition has no handler of
\* its own: when it raises, the symbol's handler logs and continues with the
\* next symbol, skipping the symbol's remaining alerts and the delay.
CheckAlert(t) ==
  /\ pc[t] = "ca_eval"
  /\ IF evalQ[t] = << >>
     THEN /\ pc' = [pc EXCEPT ![t] = "ca_delay"]
          /\ UNCHANGED << alerts, notifications, evalQ, evalLog, effects >>
     ELSE \E db_ok \in BOOLEAN, send_ok \in BOOLEAN :
            LET alert == Head(evalQ[t])
                met == check_alert_condition(alert, curPrice[t][1])
                e == IF met = "True"
                     THEN trigger_price_alert(alerts, alert, curPrice[t][1], db_ok)
                     ELSE NoEffect(alerts, met)
                sent == IF send_ok THEN e.notify ELSE {}
            IN /\ alerts' = e.table
               /\ notifications' = notifications \cup sent
               /\ evalQ' = [evalQ EXCEPT ![t] = IF met = "KeyError" THEN << >> ELSE Tail(@)]
               /\ evalLog' = [evalLog EXCEPT ![t] =
                                @ \cup {[about |-> "alert", id |-> alert.id,
                                         price |-> curPrice[t][1],
                                         outcome |-> e.outcome]}]
               /\ effects' = [effects EXCEPT ![t] =
                                [writes |-> @.writes \cup { << "alert", i >> : i \in e.wrote },
                                 notifs |-> @.notifs \cup { << n.about, n.id >> : n \in sent }]]
               /\ pc' = [pc EXCEPT ![t] =
                           IF met = "KeyError" THEN symbol_handler("alerts")
                           ELSE IF Tail(evalQ[t]) = << >> THEN "ca_delay" ELSE "ca_eval"]
  /\ UNCHANGED << positions, is_monitoring, loaded, symbolsQ, curSymbol,
                  curPrice, fetchLog, atStart, stopCalled, startsLeft,
                  manualResult, signals, gw,
                  call >>

\* await asyncio.sleep(self.check_interval) is over: the loop condition is
\* evaluated; the next iteration begins or start_monitoring returns
SleepOver(t) ==
  /\ pc[t] = "sleep"
  /\ IF LoopTest(is_monitoring) = "cp_load"
     THEN BeginCycle(t)
     ELSE /\ pc' = [pc EXCEPT ![t] = LoopTest(is_monitoring)]
          /\ UNCHANGED taskLocals
  /\ UNCHANGED << positions, alerts, notifications, is_monitoring, stopCalled,
                  startsLeft, manualResult, signals, gw,
                  call >>

LoopStep(t) ==
  \/ LoopEnter(t)
  \/ CheckPositionsLoad(t)
  \/ CheckPositionsNext(t)
  \/ CheckPositionsData(t)
  \/ CheckPositionLevels(t)
  \/ SymbolDelay(t)
  \/ CheckAlertsLoad(t)
  \/ CheckAlertsNext(t)
  \/ CheckAlertsData(t)
  \/ CheckAlert(t)
  \/ SleepOver(t)

(***************************************************************************)
(* TradingViewScraper.get_market_data, one call followed step by step.     *)
(* An upstream answer is an exception (connection error, timeout, body     *)
(* that is not JSON) or a response with a status and, for 200, its data.   *)
(* A number a body carries is Some(n); Null stands for a value float()     *)
(* rejects.  A dict is a function from its keys; the empty dict is falsy.  *)
(***************************************************************************)
max_retries == 3

GwSymbols == {"BTCUSDT", "PEPEUSDT"}
GwTimeframes == {"1m"}

Exception == [kind |-> "exception"]
Response(status, data) == [kind |-> "response", status |-> status, data |-> data]
EmptyDict == [k \in {} |-> Null]
\* a test that never finds a value
never_truthy(dict) == FALSE

\* bool(dict): a dict with at least one key (None is modelled as EmptyDict)
Truthy(dict) == DOMAIN dict # {}

TickerFull ==
  [lastPrice |-> Some(100), priceChangePercent |-> Some(2), priceChange |-> Some(2),
   highPrice |-> Some(105), lowPrice |-> Some(95), openPrice |-> Some(98),
   volume |-> Some(1000)]

\* bodies a 200 from /ticker/24hr can carry: the ticker, a ticker with fields
\* missing, one whose price is not a number, an error payload, an empty object
TickerBodies ==
  { TickerFull,
    [lastPrice |-> Some(100)],
    [TickerFull EXCEPT !.lastPrice = Null],
    [code |-> Some(-1121)],
    EmptyDict }

TickerResponses ==
  { Exception, Response(429, EmptyDict), Response(500, EmptyDict) }
    \cup { Response(200, d) : d \in TickerBodies }

\* /klines: the number of rows of a 200 body and whether every row converts
KlineBodies ==
  { [rows |-> 100, valid |-> TRUE], [rows |-> 2, valid |-> TRUE],
    [rows |-> 0, valid |-> TRUE], [rows |-> 100, valid |-> FALSE] }

KlineResponses ==
  { Exception, Response(429, EmptyDict), Response(500, EmptyDict) }
    \cup { Response(200, d) : d \in KlineBodies }

\* /simple/price: the object of the coin, if the body has one
CoinGeckoBodies ==
  { [coin |-> Some([usd |-> Some(100), usd_24h_change |-> Some(2), usd_24h_vol |-> Some(1000)])],
    [coin |-> Some([usd |-> Some(100)])],
    [coin |-> Some([usd |-> Null])],
    [coin |-> Some(EmptyDict)],
    [coin |-> Null] }

CoinGeckoResponses ==
  { Exception, Response(429, EmptyDict), Response(500, EmptyDict) }
    \cup { Response(200, d) : d \in CoinGeckoBodies }

\* hash(...) % 100 of this interpreter run
MockHashes == {0, 50, 99}

symbol_map == [s \in {"BTCUSDT", "ETHUSDT"} |-> IF s = "BTCUSDT" THEN "bitcoin" ELSE "ethereum"]

base_prices == [s \in {"BTCUSDT", "ETHUSDT"} |-> IF s = "BTCUSDT" THEN 116000 ELSE 3800]

\* what one attempt of a fetch leaves: the value returned (done) or the loop
\* going on, and the sleep it made
Returned(value, slept) == [done |-> TRUE, value |-> value, slept |-> slept]
\* a loop that runs one more time than range(max_retries)
retry_once_more(attempt, slept) ==
  [done |-> attempt >= max_retries, value |-> Null, slept |-> slept]

\* `continue`: the loop is over after the last attempt of range(max_retries)
Retry(attempt, slept) ==
  [done |-> attempt + 1 >= max_retries, value |-> Null, slept |-> slept]

\* a ticker fetch that gives up on the second status that is neither 200
\* nor 429
ticker_attempt_retry_once(resp, attempt) ==
  IF resp.kind = "exception"
  THEN IF attempt < max_retries - 1
       THEN Retry(attempt, Some(2 ^ attempt))
       ELSE Returned(Null, Null)
  ELSE IF resp.status = 200 THEN Returned(Some(resp.data), Null)
  ELSE IF resp.status = 429 THEN Retry(attempt, Some(2 ^ attempt))
  ELSE IF attempt < 1
       THEN Retry(attempt, Some(1))
       ELSE Returned(Null, Null)

\* one iteration of the retry loop of _get_binance_24hr_ticker
ticker_attempt(resp, attempt) ==
  IF resp.kind = "exception"
  THEN IF attempt < max_retries - 1
       THEN Retry(attempt, Some(2 ^ attempt))
       ELSE Returned(Null, Null)
  ELSE IF resp.status = 200 THEN Returned(Some(resp.data), Null)
  ELSE IF resp.status = 429 THEN Retry(attempt, Some(2 ^ attempt))
  ELSE IF attempt < max_retries - 1
       THEN Retry(attempt, Some(1))
       ELSE Returned(Null, Null)

\* klines as the indicator code sees them: how many and where they are from
Klines(count, origin, price) == [count |-> count, origin |-> origin, price |-> price]

\* one iteration of the retry loop of _get_binance_klines; a row that does
\* not convert raises inside the try
klines_attempt(resp, attempt) ==
  IF resp.kind = "exception" \/ (resp.status = 200 /\ ~resp.data.valid)
  THEN IF attempt < max_retries - 1
       THEN Retry(attempt, Some(2 ^ attempt))
       ELSE Returned(Null, Null)
  ELSE IF resp.status = 200
       THEN Returned(Some(Klines(resp.data.rows, "binance", Null)), Null)
  ELSE IF resp.status = 429 THEN Retry(attempt, Some(2 ^ attempt))
  ELSE IF attempt < max_retries - 1
       THEN Retry(attempt, Some(1))
       ELSE Returned(Null, Null)

\* dict.get(key, default)
Get(dict, key, default) == IF key \in DOMAIN dict THEN dict[key] ELSE default

\* _get_coingecko_price once the response is in; None when the status is not
\* 200, the coin is absent, or building the dict raises
coingecko_price(resp) ==
  IF resp.kind = "exception" THEN Null
  ELSE IF resp.status # 200 THEN Null
  ELSE IF resp.data.coin = Null THEN Null
  ELSE LET coin_data == resp.data.coin[1]
       IN IF "usd" \notin DOMAIN coin_data THEN Null
          ELSE IF coin_data["usd"] = Null THEN Null
          ELSE LET usd == coin_data["usd"][1]
               IN Some([current_price |-> Some(usd),
                        price_change_percentage_24h |-> Get(coin_data, "usd_24h_change", Some(0)),
                        total_volume |-> Get(coin_data, "usd_24h_vol", Some(1000000)),
                        high_24h |-> Some((usd * 105) \div 100),
                        low_24h |-> Some((usd * 95) \div 100)])

\* klines[-20:]
Last20(klines) == [klines EXCEPT !.count = IF @ < 20 THEN @ ELSE 20]

\* mock klines that start from a fixed price
generate_mock_klines_unanchored(current_price, count) == Klines(count, "mock", Some(0))

\* _generate_mock_klines(current_price, count)
generate_mock_klines(current_price, count) == Klines(count, "mock", Some(current_price))

RECURSIVE SumSeq(_)
\* sum(list)
SumSeq(q) == IF q = << >> THEN 0 ELSE Head(q) + SumSeq(Tail(q))

\* list[-n:] and list[-m:-n] of a list with at least n (m) elements
LastN(q, n) == SubSeq(q, Len(q) - n + 1, Len(q))
Slice(q, m, n) == SubSeq(q, Len(q) - m + 1, Len(q) - n)

\* a / b (b > 0) rounded to the nearest integer
RoundDiv(a, b) == (2 * a + b) \div (2 * b)

\* an RSI that reads a series without gains and without losses as neutral
calculate_rsi_flat_is_neutral(prices, period) ==
  IF Len(prices) < period + 1 THEN 5000
  ELSE LET deltas == [i \in 1 .. Len(prices) - 1 |-> prices[i + 1] - prices[i]]
           gains == [i \in DOMAIN deltas |-> IF deltas[i] > 0 THEN deltas[i] ELSE 0]
           losses == [i \in DOMAIN deltas |-> IF deltas[i] < 0 THEN -deltas[i] ELSE 0]
           sum_gain == SumSeq(LastN(gains, period))
           sum_loss == SumSeq(LastN(losses, period))
       IN IF sum_gain + sum_loss = 0 THEN 5000
          ELSE RoundDiv(10000 * sum_gain, sum_gain + sum_loss)

\* _calculate_rsi(prices, period), in hundredths: 50.0 for fewer than
\* period + 1 prices, 100.0 when the average loss is zero, else
\* round(100 - 100 / (1 + avg_gain / avg_loss), 2), which is
\* 100 * gains / (gains + losses)
calculate_rsi(prices, period) ==
  IF Len(prices) < period + 1 THEN 5000
  ELSE LET deltas == [i \in 1 .. Len(prices) - 1 |-> prices[i + 1] - prices[i]]
           gains == [i \in DOMAIN deltas |-> IF deltas[i] > 0 THEN deltas[i] ELSE 0]
           losses == [i \in DOMAIN deltas |-> IF deltas[i] < 0 THEN -deltas[i] ELSE 0]
           sum_gain == SumSeq(LastN(gains, period))
           sum_loss == SumSeq(LastN(losses, period))
       IN IF sum_loss = 0 THEN 10000
          ELSE RoundDiv(10000 * sum_gain, sum_gain + sum_loss)

\* a trend strength of 50 plus the change in percent, not ten times it
calculate_trend_strength_percent_only(closes) ==
  IF Len(closes) < 20 THEN 5000
  ELSE LET recent == SumSeq(LastN(closes, 10))
           older == SumSeq(Slice(closes, 20, 10))
       IN IF older = 0 THEN 5000
          ELSE LET strength == 5000 + RoundDiv(10000 * (recent - older), older)
               IN IF strength > 10000 THEN 10000
                  ELSE IF strength < 0 THEN 0 ELSE strength

\* the trend strength without min and max
calculate_trend_strength_unclamped(closes) ==
  IF Len(closes) < 20 THEN 5000
  ELSE LET recent == SumSeq(LastN(closes, 10))
           older == SumSeq(Slice(closes, 20, 10))
       IN IF older = 0 THEN 5000
          ELSE 5000 + RoundDiv(100000 * (recent - older), older)

\* _calculate_trend_strength(closes, highs, lows), in hundredths: 50.0 for
\* fewer than 20 closes or when the division raises, else
\* round(min(100, max(0, 50 + trend * 10)), 2) with trend the change in
\* percent from the mean of closes[-20:-10] to the mean of closes[-10:]
calculate_trend_strength(closes) ==
  IF Len(closes) < 20 THEN 5000
  ELSE LET recent == SumSeq(LastN(closes, 10))
           older == SumSeq(Slice(closes, 20, 10))
       IN IF older = 0 THEN 5000
          ELSE LET strength == 5000 + RoundDiv(100000 * (recent - older), older)
               IN IF strength > 10000 THEN 10000
                  ELSE IF strength < 0 THEN 0 ELSE strength

\* round(x, 4) of an amount in units of 0.00000001
round_4(x) == RoundDiv(x, 10000) * 10000

RECURSIVE ema_loop(_, _, _, _, _)
\* the loop of _calculate_ema over prices[lo .. hi], entered with `ema`:
\* ema = price * 2 / (period + 1) + ema * (1 - 2 / (period + 1)) per price,
\* kept to the nearest unit; evaluated half by half
ema_loop(prices, period, ema, lo, hi) ==
  IF lo > hi THEN ema
  ELSE IF lo = hi THEN RoundDiv(2 * prices[lo] + (period - 1) * ema, period + 1)
  ELSE LET mid == (lo + hi) \div 2
           half == ema_loop(prices, period, ema, lo, mid)
       IN IF half \in Int THEN ema_loop(prices, period, half, mid + 1, hi) ELSE half

\* _calculate_ema(prices, period): the plain mean for fewer than `period`
\* prices (0.0 from the handler when there are none), else the ema rounded
\* to 4 decimals
calculate_ema(prices, period) ==
  IF Len(prices) = 0 THEN 0
  ELSE IF Len(prices) < period THEN RoundDiv(SumSeq(prices), Len(prices))
  ELSE round_4(ema_loop(prices, period,
                        RoundDiv(SumSeq(SubSeq(prices, 1, period)), period),
                        period + 1, Len(prices)))

\* _calculate_macd(prices): << macd_line, macd_signal, macd_histogram >>;
\* zeros for fewer than 26 prices; the signal is the 9-period ema of the
\* macd of every prefix of 27 prices or more, 0 when there are fewer than 9.
\* round(x, 6) leaves differences of 4-decimal amounts as they are.
calculate_macd(prices) ==
  IF Len(prices) < 26 THEN << 0, 0, 0 >>
  ELSE LET macd_line == calculate_ema(prices, 12) - calculate_ema(prices, 26)
           macd_values == [i \in 1 .. Len(prices) - 26 |->
                             calculate_ema(SubSeq(prices, 1, 26 + i), 12)
                             - calculate_ema(SubSeq(prices, 1, 26 + i), 26)]
           macd_signal == IF Len(macd_values) >= 9 THEN calculate_ema(macd_values, 9)
                          ELSE 0
       IN << macd_line, macd_signal, macd_line - macd_signal >>

RECURSIVE isqrt(_)
\* the integer part of n ** 0.5
isqrt(n) ==
  IF n < 2 THEN n
  ELSE LET s == 2 * isqrt(n \div 4)
       IN IF (s + 1) * (s + 1) <= n THEN s + 1 ELSE s

\* _calculate_bollinger_bands(prices, 20, 2): << bb_upper, bb_middle,
\* bb_lower >>; the unrounded mean three times for fewer than 20 prices
\* (zeros from the handler when there are none), else sma + 2 * std, sma
\* and sma - 2 * std of the last 20 prices, each rounded to 4 decimals,
\* std the population deviation.  With d the prices less the first of the
\* twenty, 20 * 2 * std = 2 * sqrt(20 * sum(d^2) - sum(d)^2).
calculate_bollinger_bands(prices) ==
  IF Len(prices) = 0 THEN << 0, 0, 0 >>
  ELSE IF Len(prices) < 20
  THEN LET avg == RoundDiv(SumSeq(prices), Len(prices)) IN << avg, avg, avg >>
  ELSE LET last == LastN(prices, 20)
           total == SumSeq(last)
           d == [i \in 1 .. 20 |-> last[i] - last[1]]
           sum_d == SumSeq(d)
           sum_d2 == SumSeq([i \in 1 .. 20 |-> d[i] * d[i]])
           spread == 2 * isqrt(20 * sum_d2 - sum_d * sum_d)
       IN << RoundDiv(total + spread, 200000) * 10000,
             RoundDiv(total, 200000) * 10000,
             RoundDiv(total - spread, 200000) * 10000 >>

\* _get_default_indicators; rsi and trend_strength in hundredths
get_default_indicators ==
  [kind |-> "default", rsi |-> 5000, sma_20 |-> 0, sma_50 |-> 0, ema_20 |-> 0,
   ema_50 |-> 0, macd |-> 0, macd_signal |-> 0, macd_histogram |-> 0,
   bb_upper |-> 0, bb_middle |-> 0, bb_lower |-> 0, trend_strength |-> 0,
   price_position |-> [above_sma20 |-> FALSE, above_sma50 |-> FALSE,
                       above_ema20 |-> FALSE, above_ema50 |-> FALSE]]

\* _calculate_technical_indicators: the defaults for fewer than 50 klines or
\* when the calculation raises, the computed set otherwise.  Klines that
\* carry their closes (in units of 0.00000001) yield the indicators of those
\* closes, the two simple averages to the nearest unit; the get_market_data
\* model keeps only the count and the origin.
calculate_technical_indicators(klines) ==
  IF klines.count < 50 THEN get_default_indicators
  ELSE IF "closes" \in DOMAIN klines
       THEN LET closes == klines.closes
                sum_20 == SumSeq(LastN(closes, 20))
                sum_50 == SumSeq(LastN(closes, 50))
                ema_20 == calculate_ema(closes, 20)
                ema_50 == calculate_ema(closes, 50)
                macd == calculate_macd(closes)
                bb == calculate_bollinger_bands(closes)
                current_price == closes[Len(closes)]
            IN [kind |-> "computed", origin |-> klines.origin,
                rsi |-> calculate_rsi(closes, 14),
                sma_20 |-> RoundDiv(sum_20, 20), sma_50 |-> RoundDiv(sum_50, 50),
                ema_20 |-> ema_20, ema_50 |-> ema_50,
                macd |-> macd[1], macd_signal |-> macd[2], macd_histogram |-> macd[3],
                bb_upper |-> bb[1], bb_middle |-> bb[2], bb_lower |-> bb[3],
                trend_strength |-> calculate_trend_strength(closes),
                price_position |-> [above_sma20 |-> 20 * current_price > sum_20,
                                    above_sma50 |-> 50 * current_price > sum_50,
                                    above_ema20 |-> current_price > ema_20,
                                    above_ema50 |-> current_price > ema_50]]
       ELSE [kind |-> "computed", origin |-> klines.origin]

\* _generate_mock_data(symbol, timeframe); h = hash(symbol + timeframe) % 100,
\* h2 = hash(symbol) % 100; amounts are rounded down to whole units
generate_mock_data(symbol, timeframe, h, h2) ==
  LET base_price == IF symbol \in DOMAIN base_prices THEN base_prices[symbol] ELSE 1000
      current_price == (base_price * (900 + 2 * h)) \div 1000
      mock_klines == generate_mock_klines(current_price, 100)
      change_pct == (20 * h2) \div 100 - 10
  IN [symbol |-> symbol, timeframe |-> timeframe, source |-> "mock",
      price |-> [current |-> current_price,
                 change |-> change_pct,
                 change_abs |-> (current_price * change_pct) \div 100,
                 high |-> (current_price * 108) \div 100,
                 low |-> (current_price * 92) \div 100,
                 open |-> current_price - (current_price * change_pct) \div 100],
      volume |-> 50000 + h2,
      indicators |-> calculate_technical_indicators(mock_klines),
      raw_klines |-> Last20(mock_klines)]

\* float(dict[key]) for each key: raises when a key is missing or a value is
\* not a number
FloatsRaise(dict, keys) == \E k \in keys : k \notin DOMAIN dict \/ dict[k] = Null

\* get_market_data, lines 82-129, once price_data is truthy and the klines
\* fetch has returned: the snapshot, or raised
format_market_data(symbol, timeframe, price_data, kline_value) ==
  LET no_klines == kline_value = Null \/ kline_value[1].count = 0
      guess == Get(price_data, "lastPrice", Get(price_data, "current_price", Some(0)))
  IN IF no_klines /\ guess = Null THEN [raised |-> TRUE]
     ELSE LET kline_data == IF no_klines THEN generate_mock_klines(guess[1], 100)
                            ELSE kline_value[1]
              technical_data == calculate_technical_indicators(kline_data)
          IN IF "lastPrice" \in DOMAIN price_data
             THEN IF FloatsRaise(price_data, {"lastPrice", "priceChangePercent", "priceChange",
                                              "highPrice", "lowPrice", "openPrice", "volume"})
                  THEN [raised |-> TRUE]
                  ELSE [raised |-> FALSE,
                        value |-> [symbol |-> symbol, timeframe |-> timeframe,
                                   source |-> "binance",
                                   price |-> [current |-> price_data["lastPrice"][1],
                                              change |-> price_data["priceChangePercent"][1],
                                              change_abs |-> price_data["priceChange"][1],
                                              high |-> price_data["highPrice"][1],
                                              low |-> price_data["lowPrice"][1],
                                              open |-> price_data["openPrice"][1]],
                                   volume |-> price_data["volume"][1],
                                   indicators |-> technical_data,
                                   raw_klines |-> Last20(kline_data)]]
             ELSE IF FloatsRaise(price_data, {"current_price"})
                     \/ Get(price_data, "price_change_percentage_24h", Some(0)) = Null
                     \/ Get(price_data, "high_24h", Some(0)) = Null
                     \/ Get(price_data, "low_24h", Some(0)) = Null
                     \/ Get(price_data, "total_volume", Some(0)) = Null
                  THEN [raised |-> TRUE]
                  ELSE LET current_price == price_data["current_price"][1]
                           change_24h == Get(price_data, "price_change_percentage_24h", Some(0))[1]
                       IN [raised |-> FALSE,
                           value |-> [symbol |-> symbol, timeframe |-> timeframe,
                                      source |-> "coingecko",
                                      price |-> [current |-> current_price,
                                                 change |-> change_24h,
                                                 change_abs |-> (current_price * change_24h) \div 100,
                                                 high |-> Get(price_data, "high_24h", Some((current_price * 105) \div 100))[1],
                                                 low |-> Get(price_data, "low_24h", Some((current_price * 95) \div 100))[1],
                                                 open |-> current_price - (current_price * change_24h) \div 100],
                                      volume |-> Get(price_data, "total_volume", Some(1000000))[1],
                                      indicators |-> technical_data,
                                      raw_klines |-> Last20(kline_data)]]

\* a handler that gives up: return None
on_exception_none(symbol, timeframe, h, h2) == Null

\* the handler of get_market_data: except Exception -> the mock snapshot
on_exception(symbol, timeframe, h, h2) == Some(generate_mock_data(symbol, timeframe, h, h2))

\* what get_market_data returns once the klines fetch has returned
finish_market_data(symbol, timeframe, price_data, kline_value, h, h2) ==
  LET r == format_market_data(symbol, timeframe, price_data, kline_value)
  IN IF r.raised THEN on_exception(symbol, timeframe, h, h2) ELSE Some(r.value)

Call(what, attempt) == [ev |-> "call", what |-> what, n |-> attempt]
Sleep(what, secs) == [ev |-> "sleep", what |-> what, n |-> secs]
Slept(what, r) == IF r.slept = Null THEN << >> ELSE << Sleep(what, r.slept[1]) >>
\* the upstream's answer to a request: the status, 0 for an exception
Answer(what, resp) ==
  [ev |-> "answer", what |-> what, n |-> IF resp.kind = "exception" THEN 0 ELSE resp.status]
\* a fetcher returned to get_market_data: n = 1 with a non-empty dict, else 0
Return(what, data) == [ev |-> "return", what |-> what, n |-> IF data = EmptyDict THEN 0 ELSE 1]
\* an exception reached the handler of get_market_data
Raised(what) == [ev |-> "raise", what |-> what, n |-> 0]

\* await scraper.get_market_data(symbol, timeframe) is entered
GwCall ==
  /\ gw.pc = "idle"
  /\ \E symbol \in GwSymbols, timeframe \in GwTimeframes :
       gw' = [pc |-> "ticker", symbol |-> symbol, timeframe |-> timeframe,
              attempt |-> 0, price_data |-> EmptyDict, trace |-> << >>,
              result |-> Null]
  /\ UNCHANGED << mvars, call >>

\* one attempt of _get_binance_24hr_ticker; when it returns a truthy dict the
\* klines fetch is next, otherwise _get_coingecko_price
GwTicker ==
  /\ gw.pc = "ticker"
  /\ \E resp \in TickerResponses :
       LET r == ticker_attempt(resp, gw.attempt)
           tr == gw.trace \o << Call("ticker", gw.attempt), Answer("ticker", resp) >>
                   \o Slept("ticker", r)
           data == IF r.value = Null THEN EmptyDict ELSE r.value[1]
       IN gw' = IF ~r.done
                THEN [gw EXCEPT !.attempt = @ + 1, !.trace = tr]
                ELSE [gw EXCEPT !.pc = IF Truthy(data) THEN "klines" ELSE "coingecko",
                                !.attempt = 0, !.price_data = data,
                                !.trace = Append(tr, Return("ticker", data))]
  /\ UNCHANGED << mvars, call >>

\* _get_coingecko_price: no request for a symbol without a mapping; with no
\* price from either source get_market_data returns the mock snapshot
GwCoinGecko ==
  /\ gw.pc = "coingecko"
  /\ \E resp \in CoinGeckoResponses, h \in MockHashes, h2 \in MockHashes :
       LET mapped == gw.symbol \in DOMAIN symbol_map
           value == IF mapped THEN coingecko_price(resp) ELSE Null
           data == IF value = Null THEN EmptyDict ELSE value[1]
           tr == (IF mapped
                  THEN gw.trace \o << Call("coingecko", 0), Answer("coingecko", resp) >>
                  ELSE gw.trace)
                   \o << Return("coingecko", data) >>
       IN gw' = IF ~Truthy(data)
                THEN [gw EXCEPT !.pc = "done", !.trace = tr,
                                !.result = Some(generate_mock_data(gw.symbol, gw.timeframe, h, h2))]
                ELSE [gw EXCEPT !.pc = "klines", !.price_data = data, !.trace = tr]
  /\ UNCHANGED << mvars, call >>

\* one attempt of _get_binance_klines; when it returns, get_market_data
\* builds the snapshot and returns
GwKlines ==
  /\ gw.pc = "klines"
  /\ \E resp \in KlineResponses, h \in MockHashes, h2 \in MockHashes :
       LET r == klines_attempt(resp, gw.attempt)
           tr == gw.trace \o << Call("klines", gw.attempt), Answer("klines", resp) >>
                   \o Slept("klines", r)
           kline_data == IF r.value = Null \/ r.value[1].count = 0
                         THEN EmptyDict ELSE r.value[1]
           raised == format_market_data(gw.symbol, gw.timeframe, gw.price_data, r.value).raised
       IN gw' = IF ~r.done
                THEN [gw EXCEPT !.attempt = @ + 1, !.trace = tr]
                ELSE [gw EXCEPT !.pc = "done",
                                !.trace = tr \o << Return("klines", kline_data) >>
                                             \o IF raised THEN << Raised("format") >> ELSE << >>,
                                !.result = finish_market_data(gw.symbol, gw.timeframe,
                                                              gw.price_data, r.value, h, h2)]
  /\ UNCHANGED << mvars, call >>

NextGateway == GwCall \/ GwTicker \/ GwCoinGecko \/ GwKlines

Storage ==
  \/ CreatePosition
  \/ AddAlert
  \/ ClosePositionManually
  \/ DbClosePosition
  \/ DbTriggerAlert

Lifecycle ==
  \/ StartMonitoringCall
  \/ StopMonitoring

Next == Storage \/ Lifecycle \/ \E t \in Tasks : LoopStep(t)

NextCycle == Lifecycle \/ \E t \in Tasks : LoopStep(t)

\* the bot with its front end: storage operations interleave with the loop
Spec == Init /\ [][Next]_vars

\* one loop on a populated database
SpecCycle == InitCycle /\ [][NextCycle]_vars

\* one loop on a database with several alerts
SpecAlerts == InitAlerts /\ [][NextCycle]_vars

\* start_monitoring called more than once
SpecRestart == InitRestart /\ [][NextCycle]_vars

\* the event loop runs every task that is ready: a storage call, a gateway
\* call (total timeout 15 s) and a sleep all complete
SpecLive == Spec /\ \A t \in Tasks : WF_vars(LoopStep(t))

\* one get_market_data call against every combination of upstream answers
SpecGateway == Init /\ [][NextGateway]_vars

(***************************************************************************)
(* TechnicalAnalysis (scripts/tradingview_scraper.py): the signal engine.  *)
(* A snapshot's numbers are Some(n) or Null (None).  Prices are in units  *)
(* of 0.00000001, rsi and trend_strength in hundredths, confidence in     *)
(* tenths of a percent, the risk/reward ratio in hundredths.  Comparing   *)
(* or subtracting None raises TypeError.                                   *)
(***************************************************************************)

\* round(x, 4) of a price given as twice its value in units of 0.00000001
Round4(twice) == Some(RoundDiv(twice, 20000) * 10000)

NoRisk == [take_profit |-> Some(0), stop_loss |-> Some(0), risk_reward_ratio |-> 0]

\* TechnicalAnalysis.calculate_risk_levels: its own handler returns NoRisk
calculate_risk_levels(data, signal) ==
  LET price == Get(data, "price", EmptyDict)
      current_price == Get(price, "current", Some(0))
      high == Get(price, "high", current_price)
      low == Get(price, "low", current_price)
  IN IF current_price = Some(0) THEN NoRisk
     ELSE IF current_price = Null \/ high = Null \/ low = Null THEN NoRisk
          ELSE LET cur == current_price[1]
                   range == IF high[1] >= low[1] THEN high[1] - low[1] ELSE low[1] - high[1]
                   atr_estimate == IF range = 0 THEN cur \div 50 ELSE range
                   stop_loss2 == CASE signal = "LONG" -> 2 * cur - 3 * atr_estimate
                                   [] signal = "SHORT" -> 2 * cur + 3 * atr_estimate
                                   [] OTHER -> 2 * cur
                   take_profit2 == CASE signal = "LONG" -> 2 * cur + 5 * atr_estimate
                                     [] signal = "SHORT" -> 2 * cur - 5 * atr_estimate
                                     [] OTHER -> 2 * cur
                   risk2 == IF 2 * cur >= stop_loss2 THEN 2 * cur - stop_loss2 ELSE stop_loss2 - 2 * cur
                   reward2 == IF take_profit2 >= 2 * cur THEN take_profit2 - 2 * cur ELSE 2 * cur - take_profit2
               IN [take_profit |-> Round4(take_profit2),
                   stop_loss |-> Round4(stop_loss2),
                   risk_reward_ratio |-> IF risk2 > 0 THEN RoundDiv(100 * reward2, risk2) ELSE 0]

\* TechnicalAnalysis.get_default_signal
get_default_signal(data) ==
  LET price == Get(Get(data, "price", EmptyDict), "current", Some(0))
  IN [signal |-> "NEUTRAL", confidence |-> 0, strength |-> 0,
      take_profit |-> price, stop_loss |-> price, risk_reward_ratio |-> 0,
      entry_price |-> price]

\* the five checks: "LONG", "SHORT", "none", or "raise" for a TypeError
rsi_vote(rsi) ==
  IF rsi = Null THEN "raise"
  ELSE IF rsi[1] < 3000 THEN "LONG" ELSE IF rsi[1] > 7000 THEN "SHORT" ELSE "none"

macd_vote(macd, macd_signal, macd_histogram) ==
  IF macd = Null \/ macd_signal = Null THEN "raise"
  ELSE IF macd[1] > macd_signal[1]
       THEN IF macd_histogram = Null THEN "raise"
            ELSE IF macd_histogram[1] > 0 THEN "LONG" ELSE "none"
       ELSE IF macd[1] < macd_signal[1]
            THEN IF macd_histogram = Null THEN "raise"
                 ELSE IF macd_histogram[1] < 0 THEN "SHORT" ELSE "none"
            ELSE "none"

ma_vote(current_price, ema_20, ema_50) ==
  IF current_price = Null \/ ema_20 = Null THEN "raise"
  ELSE IF current_price[1] > ema_20[1]
       THEN IF ema_50 = Null THEN "raise"
            ELSE IF ema_20[1] > ema_50[1] THEN "LONG" ELSE "none"
       ELSE IF current_price[1] < ema_20[1]
            THEN IF ema_50 = Null THEN "raise"
                 ELSE IF ema_20[1] < ema_50[1] THEN "SHORT" ELSE "none"
            ELSE "none"

bb_vote(current_price, bb_upper, bb_lower) ==
  IF current_price = Null \/ bb_upper = Null THEN "raise"
  ELSE IF current_price[1] > bb_upper[1] THEN "SHORT"
  ELSE IF bb_lower = Null THEN "raise"
  ELSE IF current_price[1] < bb_lower[1] THEN "LONG" ELSE "none"

trend_vote(trend_strength) ==
  IF trend_strength = Null THEN "raise"
  ELSE IF trend_strength[1] > 7000 THEN "LONG"
  ELSE IF trend_strength[1] < 3000 THEN "SHORT" ELSE "none"

\* signals and confidence_factors after the five checks, in their order
Votes(data) ==
  LET indicators == Get(data, "indicators", EmptyDict)
      current_price == Get(Get(data, "price", EmptyDict), "current", Some(0))
  IN << [vote |-> rsi_vote(Get(indicators, "rsi", Some(5000))), factor |-> 8],
        [vote |-> macd_vote(Get(indicators, "macd", Some(0)),
                            Get(indicators, "macd_signal", Some(0)),
                            Get(indicators, "macd_histogram", Some(0))), factor |-> 7],
        [vote |-> ma_vote(current_price, Get(indicators, "ema_20", current_price),
                          Get(indicators, "ema_50", current_price)), factor |-> 6],
        [vote |-> bb_vote(current_price, Get(indicators, "bb_upper", Some(0)),
                          Get(indicators, "bb_lower", Some(0))), factor |-> 5],
        [vote |-> trend_vote(Get(indicators, "trend_strength", Some(5000))), factor |-> 4] >>

\* a tally that asks for a lead of two votes
overall_signal_lead_of_two(long_signals, short_signals) ==
  IF long_signals > short_signals + 1 THEN "LONG"
  ELSE IF short_signals > long_signals + 1 THEN "SHORT"
  ELSE "NEUTRAL"

\* the tally of calculate_signal_strength
overall_signal_of(long_signals, short_signals) ==
  IF long_signals > short_signals THEN "LONG"
  ELSE IF short_signals > long_signals THEN "SHORT"
  ELSE "NEUTRAL"

\* TechnicalAnalysis.calculate_signal_strength; data, data['price'] and
\* data['indicators'] are dicts, as in every snapshot of get_market_data
calculate_signal_strength(data) ==
  LET votes == Votes(data)
      cast == SelectSeq(votes, LAMBDA v : v.vote \in {"LONG", "SHORT"})
      confidence_factors == [i \in DOMAIN cast |-> cast[i].factor]
      long_signals == Len(SelectSeq(cast, LAMBDA v : v.vote = "LONG"))
      short_signals == Len(SelectSeq(cast, LAMBDA v : v.vote = "SHORT"))
      overall_signal == overall_signal_of(long_signals, short_signals)
      confidence == CASE overall_signal = "LONG" ->
                           RoundDiv(100 * SumSeq(SubSeq(confidence_factors, 1, long_signals)),
                                    Len(confidence_factors))
                      [] overall_signal = "SHORT" ->
                           RoundDiv(100 * SumSeq(SubSeq(confidence_factors, 1, short_signals)),
                                    Len(confidence_factors))
                      [] OTHER -> 300
      risk_data == calculate_risk_levels(data, overall_signal)
  IN IF \E i \in DOMAIN votes : votes[i].vote = "raise"
     THEN get_default_signal(data)
     ELSE [signal |-> overall_signal, confidence |-> confidence,
           strength |-> IF overall_signal = "LONG" THEN long_signals
                        ELSE IF overall_signal = "SHORT" THEN short_signals
                        ELSE 0,
           take_profit |-> risk_data.take_profit,
           stop_loss |-> risk_data.stop_loss,
           risk_reward_ratio |-> risk_data.risk_reward_ratio,
           entry_price |-> Get(Get(data, "price", EmptyDict), "current", Some(0))]

(***************************************************************************)
(* The functions that compute without touching storage or the network,    *)
(* each applied to an input drawn from a bounded set; `call` holds the    *)
(* function, its arguments and what it returned.                           *)
(***************************************************************************)

\* alert dicts a caller can hand to check_alert_condition: dicts that carry
\* a 'condition' key, and the dict(row) of a stored alert
AlertConditions == {"ABOVE", "BELOW", "above", "price_above", ""}
AlertTargets == {100, 70000}
AlertPrices == {80, 100, 120, 69999, 70000, 70001}
AlertDicts ==
  { [id |-> 1, user_id |-> 501, symbol |-> "BTCUSDT", target_price |-> tp,
     condition |-> c] : tp \in AlertTargets, c \in AlertConditions }
    \cup UNION { Range(tbl) : tbl \in AlertTables(1) }

ApplyCheckAlertCondition ==
  /\ call = NoCall
  /\ \E alert \in AlertDicts, current_price \in AlertPrices :
       call' = [fn |-> "check_alert_condition",
                args |-> [alert |-> alert, current_price |-> current_price],
                result |-> check_alert_condition(alert, current_price)]
  /\ UNCHANGED << mvars, gw >>

\* the PnL statements of check_position_levels, close_position and
\* close_position_manually on a position dict with a 'direction' key
PnlDirections == {"LONG", "SHORT"}
PnlPrices == {80, 100, 120, 3800, 4050, 67500, 70200}
PnlQuantities == {1, 2}

ApplyPnl ==
  /\ call = NoCall
  /\ \E direction \in PnlDirections, entry_price \in PnlPrices,
        current_price \in PnlPrices, quantity \in PnlQuantities :
       LET pct == pnl_percentage(direction, current_price, entry_price)
       IN call' = [fn |-> "pnl",
                   args |-> [direction |-> direction, entry_price |-> entry_price,
                             current_price |-> current_price, quantity |-> quantity],
                   result |-> [pnl_percentage |-> pct,
                               pnl |-> pnl_value(pct, quantity, entry_price)]]
  /\ UNCHANGED << mvars, gw >>

\* candle series by their closes: flat, rising or falling by a step per bar,
\* alternating, and flat with the last ten bars moved up or down, from 0,
\* 0.000001 and 0.01
SeriesLengths == {0, 14, 15, 19, 20, 49, 50, 100}
SeriesShapes == {"flat", "rising", "falling", "zigzag", "jump", "drop"}
SeriesBases == {0, 100, 1000000}
SeriesSteps == {1, 20}
Closes(n, shape, base, step) ==
  [i \in 1 .. n |->
     CASE shape = "flat" -> base
       [] shape = "rising" -> base + step * i
       [] shape = "falling" -> base + step * (n - i)
       [] shape = "zigzag" -> base + step * (i % 2)
       [] shape = "jump" -> IF i > n - 10 THEN base + 3 * step ELSE base
       [] shape = "drop" -> IF i > n - 10 THEN base ELSE base + 3 * step]
\* 100 closes rising evenly from 100 to 200, in units of 1/99
RisingSeries == [i \in 1 .. 100 |-> 9900 + 100 * (i - 1)]
CandleSeries ==
  { Closes(n, shape, base, step) : n \in SeriesLengths, shape \in SeriesShapes,
                                   base \in SeriesBases, step \in SeriesSteps }
    \cup {RisingSeries}

ApplyRsi ==
  /\ call = NoCall
  /\ \E closes \in CandleSeries :
       call' = [fn |-> "calculate_rsi", args |-> [prices |-> closes, period |-> 14],
                result |-> calculate_rsi(closes, 14)]
  /\ UNCHANGED << mvars, gw >>

ApplyTrendStrength ==
  /\ call = NoCall
  /\ \E closes \in CandleSeries :
       call' = [fn |-> "calculate_trend_strength", args |-> [closes |-> closes],
                result |-> calculate_trend_strength(closes)]
  /\ UNCHANGED << mvars, gw >>

\* _calculate_technical_indicators on klines fetched or generated
ApplyTechnicalIndicators ==
  /\ call = NoCall
  /\ \E closes \in CandleSeries, origin \in {"binance", "mock"} :
       LET klines == [count |-> Len(closes), origin |-> origin, closes |-> closes]
       IN call' = [fn |-> "calculate_technical_indicators", args |-> [klines |-> klines],
                   result |-> calculate_technical_indicators(klines)]
  /\ UNCHANGED << mvars, gw >>

\* an IndicatorSet as the 'indicators' dict of a snapshot
AsDict(indicator_set) ==
  [k \in DOMAIN indicator_set \ {"kind", "origin", "price_position"} |->
     Some(indicator_set[k])]

\* snapshots handed to calculate_signal_strength: current price 0, 0.00001
\* and 0.01 or None; the 24h high and low equal to the price, 5 % around it,
\* absent, or a high of None; every indicator below, between and above the
\* thresholds of its check, and an RSI of None
SignalPrices == {Some(0), Some(1000), Some(1000000), Null}
HighLowKinds == {"flat", "range", "absent", "none"}
RsiValues == {Some(2000), Some(5000), Some(8000), Null}
MacdValues == {<< 0, 0, 0 >>, << 2, 1, 1 >>, << -2, -1, -1 >>}
EmaValues == {<< 0, 0 >>, << 500000, 400000 >>, << 2000000, 3000000 >>}
BbValues == {<< 0, 0 >>, << 2000000, 500000 >>, << 3000000, 2000000 >>}
TrendValues == {Some(0), Some(5000), Some(8000)}

PriceDict(current, kind) ==
  LET cur == IF current = Null THEN 0 ELSE current[1]
  IN CASE kind = "flat" -> [current |-> current, high |-> Some(cur), low |-> Some(cur)]
       [] kind = "range" -> [current |-> current, high |-> Some(cur + cur \div 20),
                             low |-> Some(cur - cur \div 20)]
       [] kind = "absent" -> [current |-> current]
       [] kind = "none" -> [current |-> current, high |-> Null, low |-> Some(cur)]

Snapshots ==
  { [symbol |-> "BTCUSDT",
     price |-> PriceDict(current, kind),
     indicators |-> [rsi |-> rsi, macd |-> Some(m[1]), macd_signal |-> Some(m[2]),
                     macd_histogram |-> Some(m[3]), ema_20 |-> Some(e[1]),
                     ema_50 |-> Some(e[2]), bb_upper |-> Some(b[1]),
                     bb_lower |-> Some(b[2]), trend_strength |-> t]] :
      current \in SignalPrices, kind \in HighLowKinds, rsi \in RsiValues,
      m \in MacdValues, e \in EmaValues, b \in BbValues, t \in TrendValues }
    \cup { [symbol |-> "BTCUSDT", price |-> PriceDict(current, "range"),
            indicators |-> AsDict(get_default_indicators)] :
              current \in SignalPrices }
    \cup { [symbol |-> "BTCUSDT"] }

ApplySignalStrength ==
  /\ call = NoCall
  /\ \E data \in Snapshots :
       call' = [fn |-> "calculate_signal_strength", args |-> [data |-> data],
                result |-> calculate_signal_strength(data)]
  /\ UNCHANGED << mvars, gw >>

\* hash(text) with a counter added at every call
hash_per_call(hashes, text, nth) == (hashes[text] + nth) % 100

\* hash(text) % 100 in an interpreter run whose string hashes are `hashes`;
\* nth is the number of the call, which the value does not depend on
hash_of(hashes, text, nth) == hashes[text]

MockSymbols == {"BTCUSDT", "PEPEUSDT"}
MockTimeframes == {"1m", "1h"}
Clock == {1, 2}

\* _generate_mock_data(symbol, timeframe) called for the nth time at `now`
mock_data_call(hashes, symbol, timeframe, nth, now) ==
  [snapshot |-> generate_mock_data(symbol, timeframe,
                                   hash_of(hashes, << symbol, timeframe >>, nth),
                                   hash_of(hashes, << symbol >>, nth)),
   timestamp |-> now]

\* two calls of _generate_mock_data with the same arguments in one run
ApplyMockDataTwice ==
  /\ call = NoCall
  /\ \E symbol \in MockSymbols, timeframe \in MockTimeframes, now \in Clock :
     \E hashes \in [{<< symbol, timeframe >>, << symbol >>} -> MockHashes] :
       call' = [fn |-> "generate_mock_data",
                args |-> [symbol |-> symbol, timeframe |-> timeframe],
                hashes |-> hashes,
                result |-> << mock_data_call(hashes, symbol, timeframe, 1, now),
                              mock_data_call(hashes, symbol, timeframe, 2, now + 1) >>]
  /\ UNCHANGED << mvars, gw >>

\* the caller has the result; the next call can be made
ReturnPure ==
  /\ call # NoCall
  /\ call' = NoCall
  /\ UNCHANGED << mvars, gw >>

NextPure ==
  \/ ApplyCheckAlertCondition
  \/ ApplyPnl
  \/ ApplyRsi
  \/ ApplyTrendStrength
  \/ ApplyTechnicalIndicators
  \/ ApplySignalStrength
  \/ ApplyMockDataTwice
  \/ ReturnPure

\* the pure functions, each called on every input of its bounded set
SpecPure == Init /\ [][NextPure]_vars

(***************************************************************************)
(* The monitor's methods that act on one dict, each called directly with  *)
(* a storage that works or fails and a client that delivers or raises.    *)
(* The dict is the dict(row) of a stored row, or that dict with the key   *)
(* the method reads added to it.                                           *)
(***************************************************************************)
NoDirection == "none"

\* dict(row), with a 'direction' key unless direction is NoDirection
PositionDict(row, direction) ==
  IF direction = NoDirection THEN row
  ELSE [k \in DOMAIN row \cup {"direction"} |->
          IF k = "direction" THEN direction ELSE row[k]]

\* tables of one open position / one active alert
OpenPositionTables ==
  { tbl \in PositionTables(1) : Len(tbl) = 1 /\ tbl[1].status = "open" }
ActiveAlertTables ==
  { tbl \in AlertTables(1) : Len(tbl) = 1 /\ tbl[1].is_triggered = 0 }

\* dict(row), with a 'condition' key unless condition is NoDirection
AlertDict(row, condition) ==
  IF condition = NoDirection THEN row
  ELSE [k \in DOMAIN row \cup {"condition"} |->
          IF k = "condition" THEN condition ELSE row[k]]

\* what a method did: the table it left, the ids written, the messages handed
\* to send_message, those of them that were delivered, the branch taken
MethodResult(e, send_ok) ==
  [table |-> e.table, wrote |-> e.wrote, notify |-> e.notify,
   sent |-> IF send_ok THEN e.notify ELSE {}, outcome |-> e.outcome]

ApplyClosePosition ==
  /\ call = NoCall
  /\ \E tbl \in OpenPositionTables, direction \in PnlDirections \cup {NoDirection},
        current_price \in Prices, status \in {"TP_HIT", "SL_HIT"},
        db_ok \in BOOLEAN, send_ok \in BOOLEAN :
       LET position == PositionDict(tbl[1], direction)
       IN call' = [fn |-> "close_position",
                   args |-> [table |-> tbl, position |-> position,
                             current_price |-> current_price, status |-> status,
                             db_ok |-> db_ok, send_ok |-> send_ok],
                   result |-> MethodResult(close_position(tbl, position, current_price,
                                                          status, db_ok), send_ok)]
  /\ UNCHANGED << mvars, gw >>

ApplyCheckPositionLevels ==
  /\ call = NoCall
  /\ \E tbl \in OpenPositionTables, direction \in PnlDirections \cup {NoDirection},
        current_price \in Prices, db_ok \in BOOLEAN, send_ok \in BOOLEAN :
       LET position == PositionDict(tbl[1], direction)
       IN call' = [fn |-> "check_position_levels",
                   args |-> [table |-> tbl, position |-> position,
                             current_price |-> current_price,
                             db_ok |-> db_ok, send_ok |-> send_ok],
                   result |-> MethodResult(check_position_levels(tbl, position,
                                                                 current_price, db_ok),
                                           send_ok)]
  /\ UNCHANGED << mvars, gw >>

ApplyTriggerPriceAlert ==
  /\ call = NoCall
  /\ \E tbl \in ActiveAlertTables, condition \in {"ABOVE", "BELOW", NoDirection},
        current_price \in Prices, db_ok \in BOOLEAN, send_ok \in BOOLEAN :
       LET alert == AlertDict(tbl[1], condition)
       IN call' = [fn |-> "trigger_price_alert",
                   args |-> [table |-> tbl, alert |-> alert,
                             current_price |-> current_price,
                             db_ok |-> db_ok, send_ok |-> send_ok],
                   result |-> MethodResult(trigger_price_alert(tbl, alert, current_price,
                                                               db_ok), send_ok)]
  /\ UNCHANGED << mvars, gw >>

NextMethods ==
  \/ ApplyClosePosition
  \/ ApplyCheckPositionLevels
  \/ ApplyTriggerPriceAlert
  \/ ReturnPure

\* the monitor's methods, each called on every input of its bounded set
SpecMethods == Init /\ [][NextMethods]_vars

(***************************************************************************)
(* Properties.                                                             *)
(***************************************************************************)
InPositionsPass(t) == pc[t] \in {"cp_next", "cp_wait", "cp_eval", "cp_delay"}
InAlertsPass(t) == pc[t] \in {"ca_next", "ca_wait", "ca_eval", "ca_delay"}
Ids(rows) == { r.id : r \in Range(rows) }
Notified(about, id, user_id) ==
  \E n \in notifications : n.about = about /\ n.id = id /\ n.to = user_id

\* the stored row says the price reached take-profit / stop-loss
TakeProfitCrossed(row, price) ==
  IF row.position_type = "long" THEN price >= row.take_profit
  ELSE price <= row.take_profit
StopLossCrossed(row, price) ==
  IF row.position_type = "long" THEN price <= row.stop_loss
  ELSE price >= row.stop_loss

MonitorOrManualStep == ClosePositionManually \/ \E t \in Tasks : LoopStep(t)

\* C1: no step of a monitoring cycle and no close_position_manually call
\* changes the stored status of a position that is not open, however the
\* cycle (working on the rows it loaded) and the manual close interleave.
C1_TerminalStatusKept ==
  [][MonitorOrManualStep =>
       \A i \in DOMAIN positions :
         positions[i].status # "open" => positions'[i].status = positions[i].status]_vars

\* a cycle is about to evaluate the row it loaded of a position that has been
\* closed since, and close_position_manually has been called on that position
C1_StaleRowOfClosedPosition ==
  \E t \in Tasks :
    /\ pc[t] = "cp_eval"
    /\ evalQ[t] # << >>
    /\ positions[Head(evalQ[t]).id].status # "open"
    /\ manualResult # << >>
    /\ manualResult[1] = Head(evalQ[t]).id
    /\ ~manualResult[2]
    /\ ~manualResult[3]

\* C2: at any moment a position or alert is held by the pass of at most one
\* monitoring loop, for every sequence of start_monitoring and
\* stop_monitoring calls.
C2_OneCyclePerEntity ==
  \A t, u \in Tasks :
    t # u =>
      /\ ~(InPositionsPass(t) /\ InPositionsPass(u)
           /\ Ids(loaded[t]) \cap Ids(loaded[u]) # {})
      /\ ~(InAlertsPass(t) /\ InAlertsPass(u)
           /\ Ids(loaded[t]) \cap Ids(loaded[u]) # {})

\* C3: a position that was not open, or an alert that was triggered, when a
\* cycle began is not among the rows the cycle loads, is not evaluated in
\* it, and gets no storage write and no notification from it.
C3_Idempotent ==
  \A t \in Tasks :
    /\ InPositionsPass(t) => Ids(loaded[t]) \cap atStart[t].closed = {}
    /\ InAlertsPass(t) => Ids(loaded[t]) \cap atStart[t].triggered = {}
    /\ \A e \in evalLog[t] :
         /\ e.about = "position" => e.id \notin atStart[t].closed
         /\ e.about = "alert" => e.id \notin atStart[t].triggered
    /\ \A w \in effects[t].writes \cup effects[t].notifs :
         /\ w[1] = "position" => w[2] \notin atStart[t].closed
         /\ w[1] = "alert" => w[2] \notin atStart[t].triggered

\* a cycle that began with a closed position and a triggered alert in storage
\* has evaluated an open position and is over
C3_CycleOverClosedRows ==
  \E t \in Tasks :
    /\ pc[t] = "sleep"
    /\ atStart[t].closed # {}
    /\ atStart[t].triggered # {}
    /\ \E e \in evalLog[t] : e.about = "position"

\* C4: once stop_monitoring has been called no further cycle is started,
\* whenever the call happens, also between the creation of the
\* start_monitoring task and its first step.
C4_NoCycleAfterStop ==
  [][\A t \in Tasks :
       (stopCalled /\ pc[t] \in {"created", "sleep"}) => pc'[t] # "cp_load"]_vars

\* C5: start_monitoring returns only after stop_monitoring was called, and as
\* long as it has not been called a cycle that is over is followed by the
\* next cycle, whatever failed inside the cycle.
C5_LoopLives ==
  /\ [](\A t \in Tasks : pc[t] = "returned" => stopCalled)
  /\ \A t \in Tasks :
       (pc[t] = "sleep" /\ ~stopCalled) ~> (pc[t] = "cp_load" \/ stopCalled)

\* a later cycle, begun without a stop, in which an evaluation failed again
C5_NextCycleAfterErrors ==
  \E t \in Tasks :
    /\ atStart[t].cycle = MaxCycles
    /\ ~stopCalled
    /\ \E e \in evalLog[t] : e.outcome = "error"

C7_OneFetchPerSymbol ==
  \A t \in Tasks :
    \A i, j \in DOMAIN fetchLog[t] :
      i # j => fetchLog[t][i].symbol # fetchLog[t][j].symbol

\* C8: when a cycle is over, every position it evaluated at a price that
\* reached take-profit is stored as TP_HIT with that price and a closed
\* timestamp, and its owner has been notified.
C8_TakeProfitTransition ==
  \A t \in Tasks :
    pc[t] = "sleep" =>
      \A e \in evalLog[t] :
        (e.about = "position" /\ TakeProfitCrossed(positions[e.id], e.price)) =>
          /\ positions[e.id].status = "TP_HIT"
          /\ positions[e.id].current_price = Some(e.price)
          /\ positions[e.id].closed_at # Null
          /\ Notified("position", e.id, positions[e.id].user_id)

\* C9: when a cycle is over, every position it evaluated at a price that
\* reached stop-loss and not take-profit is stored as SL_HIT with that price
\* and a closed timestamp, and its owner has been notified.
C9_StopLossTransition ==
  \A t \in Tasks :
    pc[t] = "sleep" =>
      \A e \in evalLog[t] :
        (/\ e.about = "position"
         /\ StopLossCrossed(positions[e.id], e.price)
         /\ ~TakeProfitCrossed(positions[e.id], e.price)) =>
          /\ positions[e.id].status = "SL_HIT"
          /\ positions[e.id].current_price = Some(e.price)
          /\ positions[e.id].closed_at # Null
          /\ Notified("position", e.id, positions[e.id].user_id)

\* C10: an evaluation at a price that meets both the take-profit and the
\* stop-loss condition of the position closes it as TP_HIT, with one write.
C10_TakeProfitFirst ==
  \A t \in Tasks :
    \A e \in evalLog[t] :
      (/\ e.about = "position"
       /\ TakeProfitCrossed(positions[e.id], e.price)
       /\ StopLossCrossed(positions[e.id], e.price)) =>
        /\ e.outcome = "TP_HIT"
        /\ << "position", e.id >> \in effects[t].writes

\* the stored alert's rule is met by the price
AlertConditionMet(row, price) ==
  \/ row.alert_type = "price_above" /\ price >= row.target_price
  \/ row.alert_type = "price_below" /\ price <= row.target_price

\* C11: an evaluation at a price that reaches neither level of the position
\* stores that price, leaves the position open with no closed timestamp, and
\* sends no notification.
C11_UpdateWithoutHit ==
  \A t \in Tasks :
    \A e \in evalLog[t] :
      (/\ e.about = "position"
       /\ ~TakeProfitCrossed(positions[e.id], e.price)
       /\ ~StopLossCrossed(positions[e.id], e.price)) =>
        /\ e.outcome = "updated"
        /\ positions[e.id].current_price = Some(e.price)
        /\ positions[e.id].status = "open"
        /\ positions[e.id].closed_at = Null
        /\ << "position", e.id >> \notin effects[t].notifs

\* C13: when a cycle is over, every alert it evaluated at a price that meets
\* the alert's rule is stored as triggered with that price and a trigger
\* time, and its owner has been notified.
C13_AlertTriggered ==
  \A t \in Tasks :
    pc[t] = "sleep" =>
      \A e \in evalLog[t] :
        (e.about = "alert" /\ AlertConditionMet(alerts[e.id], e.price)) =>
          /\ alerts[e.id].is_triggered = 1
          /\ alerts[e.id].current_price = Some(e.price)
          /\ alerts[e.id].triggered_at # Null
          /\ Notified("alert", e.id, alerts[e.id].user_id)

\* C14: close_position_manually on an open position, with storage working,
\* returns True and leaves the position stored as CLOSED_MANUAL with a
\* closed timestamp.
C14_ManualCloseSucceeds ==
  [][(ClosePositionManually /\ manualResult'[2] /\ manualResult'[4]) =>
       /\ manualResult'[3]
       /\ positions'[manualResult'[1]].status = "CLOSED_MANUAL"
       /\ positions'[manualResult'[1]].closed_at # Null]_vars

\* C12: on an alert dict that carries a condition, check_alert_condition
\* returns true exactly when the condition is ABOVE and the price is at or
\* above the target, or the condition is BELOW and the price is at or below
\* the target; for every other condition value it returns false.
C12_AlertConditionTable ==
  (call.fn = "check_alert_condition" /\ "condition" \in DOMAIN call.args.alert) =>
    LET alert == call.args.alert
        price == call.args.current_price
        expected == \/ alert.condition = "ABOVE" /\ price >= alert.target_price
                    \/ alert.condition = "BELOW" /\ price <= alert.target_price
    IN call.result = (IF expected THEN "True" ELSE "False")

\* an ABOVE alert evaluated at exactly its target has triggered
C12_BoundaryTriggers ==
  /\ call.fn = "check_alert_condition"
  /\ "condition" \in DOMAIN call.args.alert
  /\ call.args.alert.condition = "ABOVE"
  /\ call.args.alert.target_price = 70000
  /\ call.args.current_price = 70000
  /\ call.result = "True"

\* the exact quotient q of a / b (b > 0) rounded down: r
FloorOf(r, a, b) == r * b <= a /\ a < (r + 1) * b

\* C19: the PnL percentage (in hundredths of a percent) is
\* 100 * (current - entry) / entry for LONG and 100 * (entry - current) / entry
\* for SHORT; LONG 67500 -> 70200 gives +4.00, SHORT 3800 -> 4050 gives
\* -6.58; the absolute PnL is that percentage of quantity * entry.
C19_PnlFormula ==
  call.fn = "pnl" =>
    LET a == call.args
        r == call.result
        move == IF a.direction = "LONG" THEN a.current_price - a.entry_price
                ELSE a.entry_price - a.current_price
    IN /\ FloorOf(r.pnl_percentage, 10000 * move, a.entry_price)
       /\ FloorOf(r.pnl, r.pnl_percentage * a.quantity * a.entry_price, 10000)
       /\ (a.direction = "LONG" /\ a.entry_price = 67500 /\ a.current_price = 70200)
            => r.pnl_percentage = 400
       /\ (a.direction = "SHORT" /\ a.entry_price = 3800 /\ a.current_price = 4050)
            => r.pnl_percentage = -658

\* the SHORT scenario has been computed: a loss of 6.58 percent
C19_ShortLoss ==
  /\ call.fn = "pnl"
  /\ call.args.direction = "SHORT"
  /\ call.args.entry_price = 3800
  /\ call.args.current_price = 4050
  /\ call.result.pnl_percentage = -658
  /\ call.result.pnl < 0

\* the events of the call so far that satisfy a test
Events(ev, what) == { i \in DOMAIN gw.trace : gw.trace[i].ev = ev /\ gw.trace[i].what = what }

\* C20: a request to the secondary upstream is made only for a mapped symbol
\* and only after the ticker fetch returned nothing; the mock snapshot is
\* returned only when both price fetches returned nothing or an exception
\* reached the handler.
C20_FallbackOrder ==
  gw.pc # "idle" =>
    /\ \A i \in Events("call", "coingecko") :
         /\ gw.symbol \in DOMAIN symbol_map
         /\ \E j \in Events("return", "ticker") : j < i /\ gw.trace[j].n = 0
    /\ (gw.pc = "done" /\ gw.result # Null /\ gw.result[1].source = "mock") =>
         \/ /\ \E j \in Events("return", "ticker") : gw.trace[j].n = 0
            /\ \E j \in Events("return", "coingecko") : gw.trace[j].n = 0
         \/ Events("raise", "format") # {}

\* the ticker fetch failed, the secondary upstream was asked and its price
\* made the snapshot
C20_SecondaryPriceUsed ==
  /\ gw.pc = "done"
  /\ Events("call", "coingecko") # {}
  /\ gw.result # Null
  /\ gw.result[1].source = "coingecko"

\* the default IndicatorSet as documented: RSI 50, trend strength 50, every
\* average, MACD value and band 0, the four flags false
DocumentedDefaults ==
  [get_default_indicators EXCEPT !.rsi = 5000, !.trend_strength = 5000]

\* C17: for a series of fewer than 50 bars _calculate_technical_indicators
\* returns the documented default set, trend strength 50 included.
C17_ShortSeriesDefaults ==
  (call.fn = "calculate_technical_indicators" /\ call.args.klines.count < 50) =>
    call.result = DocumentedDefaults

\* C15: a LONG signal has stop-loss < entry < take-profit, a SHORT signal
\* take-profit < entry < stop-loss, a NEUTRAL signal take-profit =
\* stop-loss = entry, for every snapshot.
C15_LevelsOrdered ==
  call.fn = "calculate_signal_strength" =>
    LET r == call.result
    IN /\ r.signal = "LONG" =>
            r.stop_loss[1] < r.entry_price[1] /\ r.entry_price[1] < r.take_profit[1]
       /\ r.signal = "SHORT" =>
            r.take_profit[1] < r.entry_price[1] /\ r.entry_price[1] < r.stop_loss[1]
       /\ r.signal = "NEUTRAL" =>
            r.take_profit = r.entry_price /\ r.stop_loss = r.entry_price

\* C16: the RSI and the trend strength of every series are within 0 and
\* 100, and so is the confidence of every signal.
C16_Ranges ==
  /\ call.fn \in {"calculate_rsi", "calculate_trend_strength"} =>
       call.result \in 0 .. 10000
  /\ call.fn = "calculate_technical_indicators" =>
       /\ call.result.rsi \in 0 .. 10000
       /\ call.result.trend_strength \in 0 .. 10000
  /\ call.fn = "calculate_signal_strength" =>
       call.result.confidence \in 0 .. 1000

\* the mean of the last ten closes is 60 % above that of the ten before:
\* 50 + 600 is cut to 100
C16_TrendCut ==
  /\ call.fn = "calculate_trend_strength"
  /\ call.args.closes = Closes(20, "jump", 100, 20)
  /\ call.result = 10000

\* a check of the voting step raises on the snapshot
VotingRaises(data) == \E i \in 1 .. 5 : Votes(data)[i].vote = "raise"

\* the risk-level step raises on the snapshot: a level or the price is None
RiskRaises(data) ==
  LET price == Get(data, "price", EmptyDict)
      current_price == Get(price, "current", Some(0))
  IN /\ current_price # Some(0)
     /\ \/ current_price = Null
        \/ Get(price, "high", current_price) = Null
        \/ Get(price, "low", current_price) = Null

\* C18: when the voting step or the risk-level step raises, the signal
\* returned is NEUTRAL with confidence 0 and entry, take-profit and
\* stop-loss equal to the snapshot's current price.
C18_ErrorsGiveDefault ==
  (/\ call.fn = "calculate_signal_strength"
   /\ VotingRaises(call.args.data) \/ RiskRaises(call.args.data)) =>
    LET r == call.result
        current == Get(Get(call.args.data, "price", EmptyDict), "current", Some(0))
    IN /\ r.signal = "NEUTRAL"
       /\ r.confidence = 0
       /\ r.entry_price = current
       /\ r.take_profit = current
       /\ r.stop_loss = current

\* C21: a ticker fetch and a klines fetch make at most 3 requests each,
\* whatever the answers, and one get_market_data call makes at most 3
\* ticker requests, 1 request to the secondary upstream and 3 klines
\* requests.
C21_BoundedCalls ==
  gw.pc # "idle" =>
    /\ Cardinality(Events("call", "ticker")) <= 3
    /\ Cardinality(Events("call", "coingecko")) <= 1
    /\ Cardinality(Events("call", "klines")) <= 3
    /\ \A i \in DOMAIN gw.trace : gw.trace[i].ev = "call" => gw.trace[i].n < 3

\* a call that used every request it can make: 3 + 1 + 3
C21_AllAttemptsUsed ==
  /\ gw.pc = "done"
  /\ Cardinality(Events("call", "ticker")) = 3
  /\ Cardinality(Events("call", "coingecko")) = 1
  /\ Cardinality(Events("call", "klines")) = 3

\* C22: after a 429 answer to the attempt numbered k (1, 2, 3) the fetch
\* sleeps 2^(k-1) seconds, and the sleep is followed by another attempt of
\* the same fetch.
C22_BackoffThenRetry ==
  gw.pc # "idle" =>
    \A i \in DOMAIN gw.trace :
      (gw.trace[i].ev = "answer" /\ gw.trace[i].n = 429
         /\ gw.trace[i].what \in {"ticker", "klines"}) =>
        /\ i + 1 \in DOMAIN gw.trace
        /\ gw.trace[i + 1] = Sleep(gw.trace[i].what, 2 ^ gw.trace[i - 1].n)
        /\ IF i + 2 \in DOMAIN gw.trace
           THEN gw.trace[i + 2].ev = "call" /\ gw.trace[i + 2].what = gw.trace[i].what
           ELSE gw.pc = gw.trace[i].what

\* the fetch `what` is over and every answer it got was a status other than
\* 200 and 429
FailedOnStatus(what) ==
  /\ gw.pc # "idle"
  /\ Events("return", what) # {}
  /\ Events("answer", what) # {}
  /\ \A i \in Events("answer", what) : gw.trace[i].n = 500

\* C23 as stated: a fetch answered only by such statuses makes exactly 2
\* attempts and returns failure.
C23_TwoAttempts ==
  \A what \in {"ticker", "klines"} :
    FailedOnStatus(what) =>
      /\ Cardinality(Events("call", what)) = 2
      /\ \A j \in Events("return", what) : gw.trace[j].n = 0

\* C23 amended: a fetch answered only by such statuses makes exactly 3
\* attempts, sleeps 1 second after the first and after the second, and
\* returns failure.
C23_ThreeAttempts ==
  \A what \in {"ticker", "klines"} :
    FailedOnStatus(what) =>
      /\ Cardinality(Events("call", what)) = 3
      /\ Cardinality(Events("sleep", what)) = 2
      /\ \A i \in Events("sleep", what) : gw.trace[i].n = 1
      /\ \A j \in Events("return", what) : gw.trace[j].n = 0

\* the ticker fetch gave up after three answers of status 500
C23_TickerGaveUp ==
  /\ FailedOnStatus("ticker")
  /\ Cardinality(Events("call", "ticker")) = 3

\* the price the ticker or the secondary upstream returned
ResolvedPrice == Get(gw.price_data, "lastPrice", Get(gw.price_data, "current_price", Some(0)))

\* the klines fetch returned nothing and the snapshot was built
KlinesFailedQuietly ==
  /\ gw.pc = "done"
  /\ \E i \in Events("return", "klines") : gw.trace[i].n = 0
  /\ Events("raise", "format") = {}

\* a failed klines fetch gives mock klines that start from the resolved
\* price, and the snapshot has that price
MockKlinesAnchored ==
  KlinesFailedQuietly =>
    /\ gw.result[1].raw_klines.origin = "mock"
    /\ gw.result[1].raw_klines.price = ResolvedPrice
    /\ Some(gw.result[1].price.current) = ResolvedPrice

\* C24 as stated: every get_market_data call requests the klines, however
\* the price was resolved, and a failed klines fetch gives mock klines that
\* start from the resolved price, which the snapshot keeps.
C24_KlinesAlways ==
  /\ gw.pc = "done" => Events("call", "klines") # {}
  /\ MockKlinesAnchored

\* C24 amended: the klines are requested exactly when the ticker or the
\* secondary upstream returned a price dict (never after both failed), and
\* a failed klines fetch gives mock klines that start from the resolved
\* price, which the snapshot keeps unless formatting raises.
C24_KlinesAfterPrice ==
  /\ gw.pc = "done" =>
       (Events("call", "klines") # {} <=>
          \E i \in Events("return", "ticker") \cup Events("return", "coingecko") :
            gw.trace[i].n = 1)
  /\ MockKlinesAnchored

\* the secondary upstream gave the price, the klines fetch failed, and the
\* snapshot carries that price with mock klines
C24_MockKlinesOnSecondaryPrice ==
  /\ KlinesFailedQuietly
  /\ gw.result[1].source = "coingecko"
  /\ gw.result[1].raw_klines.origin = "mock"
  /\ gw.result[1].raw_klines.price = Some(gw.result[1].price.current)

VoteCount(data, direction) ==
  Cardinality({ i \in 1 .. 5 : Votes(data)[i].vote = direction })

\* C26: the direction is LONG when more checks voted LONG than SHORT, SHORT
\* when more voted SHORT, NEUTRAL when the counts are equal (no votes
\* included), and a NEUTRAL outcome of the voting has confidence 30.
C26_MajorityVote ==
  (call.fn = "calculate_signal_strength" /\ ~VotingRaises(call.args.data)) =>
    LET long == VoteCount(call.args.data, "LONG")
        short == VoteCount(call.args.data, "SHORT")
        r == call.result
    IN /\ long > short => r.signal = "LONG"
       /\ short > long => r.signal = "SHORT"
       /\ long = short => r.signal = "NEUTRAL" /\ r.confidence = 300

\* two checks voted LONG, two voted SHORT, and the signal is NEUTRAL at 30
C26_TieIsNeutral ==
  /\ call.fn = "calculate_signal_strength"
  /\ ~VotingRaises(call.args.data)
  /\ VoteCount(call.args.data, "LONG") = 2
  /\ VoteCount(call.args.data, "SHORT") = 2
  /\ call.result.signal = "NEUTRAL"
  /\ call.result.confidence = 300

\* the sum of the weights (in tenths) of the checks that voted for a direction
WeightOf(data, direction) ==
  LET won == SelectSeq(Votes(data), LAMBDA v : v.vote = direction)
  IN SumSeq([i \in DOMAIN won |-> won[i].factor])

\* C27: for a LONG or SHORT outcome the confidence is 100 times the sum of
\* the weights of the checks that voted for the winning direction, divided
\* by the number of checks that voted for either direction.
C27_WinnersWeights ==
  (/\ call.fn = "calculate_signal_strength"
   /\ ~VotingRaises(call.args.data)
   /\ call.result.signal \in {"LONG", "SHORT"}) =>
    call.result.confidence =
      RoundDiv(100 * WeightOf(call.args.data, call.result.signal),
               VoteCount(call.args.data, "LONG") + VoteCount(call.args.data, "SHORT"))

\* no close among the last 14 deltas is below the close before it
NoLossInLast14(prices) ==
  \A i \in 1 .. Len(prices) - 1 : i > Len(prices) - 1 - 14 => prices[i + 1] >= prices[i]

\* C28: _calculate_rsi returns 50 for fewer than 15 closes, and 100 for 15
\* closes or more whenever none of the last 14 deltas is a loss, a flat
\* series included.
C28_RsiDefaults ==
  call.fn = "calculate_rsi" =>
    LET prices == call.args.prices
    IN /\ Len(prices) < 15 => call.result = 5000
       /\ (Len(prices) >= 15 /\ NoLossInLast14(prices)) => call.result = 10000

\* a flat series of 15 closes or more has RSI 100
C28_FlatIsHundred ==
  /\ call.fn = "calculate_rsi"
  /\ Len(call.args.prices) >= 15
  /\ \A i \in DOMAIN call.args.prices : call.args.prices[i] = call.args.prices[1]
  /\ call.result = 10000

\* the klines are 50 bars or more, all with the same close
FlatSeries(klines) ==
  /\ klines.count >= 50
  /\ \A i \in DOMAIN klines.closes : klines.closes[i] = klines.closes[1]

\* C29: for a flat series of at least 50 bars, all closes equal to p, the
\* MACD line, signal and histogram are 0, the three Bollinger bands, both
\* simple and both exponential averages are p, and the trend strength is 50.
C29_FlatSeriesIndicators ==
  (call.fn = "calculate_technical_indicators" /\ FlatSeries(call.args.klines)) =>
    LET p == call.args.klines.closes[1]
        r == call.result
    IN /\ r.macd = 0 /\ r.macd_signal = 0 /\ r.macd_histogram = 0
       /\ r.bb_upper = p /\ r.bb_middle = p /\ r.bb_lower = p
       /\ r.sma_20 = p /\ r.sma_50 = p /\ r.ema_20 = p /\ r.ema_50 = p
       /\ r.trend_strength = 5000

\* r is x / y (y > 0) rounded to two decimals, r in hundredths
RoundedTo2(r, x, y) ==
  /\ 2 * (100 * x - r * y) <= y
  /\ 2 * (r * y - 100 * x) <= y

\* C30: the trend strength is 50 for fewer than 20 closes; otherwise, with
\* pct the change in percent from the mean of closes[-20:-10] (above zero)
\* to the mean of closes[-10:], it is 50 + 10 * pct, 0 when that is below 0
\* and 100 when it is above 100.  For the 100 closes rising evenly from 100
\* to 200 the trend strength is above 50 and the RSI is 100.
C30_TrendFormula ==
  /\ call.fn = "calculate_trend_strength" =>
       LET closes == call.args.closes
           recent == SumSeq(LastN(closes, 10))
           older == SumSeq(Slice(closes, 20, 10))
           r == call.result
       IN /\ Len(closes) < 20 => r = 5000
          /\ (Len(closes) >= 20 /\ older > 0) =>
               IF 20 * (recent - older) >= older THEN r = 10000
               ELSE IF 20 * (older - recent) >= older THEN r = 0
               ELSE RoundedTo2(r - 5000, 1000 * (recent - older), older)
          /\ closes = RisingSeries => r > 5000
  /\ (call.fn = "calculate_rsi" /\ call.args.prices = RisingSeries) =>
       call.result = 10000

\* the trend strength of the 100 closes rising evenly from 100 to 200: the
\* last ten average 5.4 % above the ten before, and 50 + 54 is cut to 100
C30_RisingHundred ==
  /\ call.fn = "calculate_trend_strength"
  /\ call.args.closes = RisingSeries
  /\ call.result = 10000

\* the rows task t loaded for a symbol have all been evaluated in this cycle
SymbolEvaluated(t, about, symbol) ==
  \A r \in Range(loaded[t]) :
    r.symbol = symbol => \E e \in evalLog[t] : e.about = about /\ e.id = r.id

\* C31: within one loop the gateway calls of a cycle are sequential: the
\* call in flight is the last one issued, every call but the last was
\* followed by the evaluation of all rows of its symbol, and by the delay
\* between symbols, before the next call was issued.
C31_SequentialCalls ==
  \A t \in Tasks :
    /\ pc[t] \in {"cp_wait", "ca_wait"} =>
         fetchLog[t][Len(fetchLog[t])].symbol = curSymbol[t][1]
    /\ \A i \in 1 .. Len(fetchLog[t]) - 1 :
         /\ fetchLog[t][i].delayed
         /\ (InPositionsPass(t) /\ fetchLog[t][i].pass = "positions") =>
              SymbolEvaluated(t, "position", fetchLog[t][i].symbol)
         /\ (InAlertsPass(t) /\ fetchLog[t][i].pass = "alerts") =>
              SymbolEvaluated(t, "alert", fetchLog[t][i].symbol)

\* a row of every symbol among the rows has been fetched for and evaluated
SymbolsCovered(rows, table, pass, about, fetched, evaluated) ==
  \A r \in Range(rows) :
    /\ \E i \in DOMAIN fetched : fetched[i].pass = pass /\ fetched[i].symbol = r.symbol
    /\ \E e \in evaluated : e.about = about /\ table[e.id].symbol = r.symbol

InCheckPositions(t) == pc[t] = "cp_load" \/ InPositionsPass(t)

\* C32: when a pass ends, every symbol of the rows it loaded has been
\* fetched and its evaluation entered, whatever failed for the symbols
\* before it; and however check_positions ends, check_price_alerts is the
\* next thing the cycle runs.
C32_FailureIsolation ==
  [][\A t \in Tasks :
       /\ (InCheckPositions(t) /\ ~InCheckPositions(t)') =>
            /\ pc'[t] = "ca_load"
            /\ SymbolsCovered(loaded[t], positions, "positions", "position",
                              fetchLog'[t], evalLog'[t])
       /\ (InAlertsPass(t) /\ ~InAlertsPass(t)') =>
            SymbolsCovered(loaded[t], alerts, "alerts", "alert",
                           fetchLog'[t], evalLog'[t])]_vars

\* the cycle is over; the evaluation of one symbol's alert raised, and the
\* alert of another symbol was fetched for and evaluated as well
C32_SecondSymbolAfterError ==
  \E t \in Tasks :
    /\ pc[t] = "sleep"
    /\ \E e1, e2 \in evalLog[t] :
         /\ e1.about = "alert" /\ e2.about = "alert"
         /\ e1.outcome = "KeyError"
         /\ alerts[e1.id].symbol # alerts[e2.id].symbol
    /\ \E i, j \in DOMAIN fetchLog[t] :
         /\ fetchLog[t][i].pass = "alerts" /\ fetchLog[t][j].pass = "alerts"
         /\ fetchLog[t][i].symbol # fetchLog[t][j].symbol

\* C33: a step of the monitoring loop leaves the signal history as it was
\* (no signal is computed or stored), inserts no row, changes the positions
\* table only while evaluating a position and the alerts table only by
\* marking an evaluated alert as triggered, and every evaluation it logs
\* used the price of the snapshot just fetched
C33_MonitorWritesOnlyLevels ==
  [][\A t \in Tasks : pc'[t] # pc[t] =>
       /\ signals' = signals
       /\ Len(positions') = Len(positions) /\ Len(alerts') = Len(alerts)
       /\ positions' # positions => pc[t] = "cp_eval"
       /\ alerts' # alerts =>
            /\ pc[t] = "ca_eval"
            /\ \A i \in DOMAIN alerts :
                 alerts'[i] # alerts[i] => alerts[i].is_triggered = 0 /\ alerts'[i].is_triggered = 1
       /\ \A e \in evalLog'[t] \ evalLog[t] : Some(e.price) = curPrice[t]]_vars

\* a cycle ended after evaluating a position and an alert, on a database whose signal
\* history holds the signal of an earlier analysis
C33_CycleBesideStoredSignal ==
  \E t \in Tasks :
    /\ pc[t] = "sleep"
    /\ Len(signals) = 1
    /\ \E e \in evalLog[t] : e.about = "position"
    /\ \E e \in evalLog[t] : e.about = "alert"

\* C34: a close_position_manually call for an id that is no position or a
\* position that is not open returns False and leaves the positions table
\* (status, price, PnL, closing time of every row) exactly as it was
C34_ManualCloseNeedsOpenRow ==
  [][(ClosePositionManually /\ ~manualResult'[2]) =>
       ~manualResult'[3] /\ positions' = positions]_vars

\* close_position_manually has just been called, with storage working, on a
\* position that had been closed before, and returned False
C34_ManualCloseOfClosedRow ==
  /\ manualResult # << >>
  /\ manualResult[1] \in DOMAIN positions
  /\ positions[manualResult[1]].status \in CloseStatuses
  /\ ~manualResult[2]
  /\ ~manualResult[3]
  /\ manualResult[4]

C36_StoredRowsEvaluate ==
  \A t \in Tasks : \A e \in evalLog[t] :
    /\ e.about = "position" => e.outcome \in {"TP_HIT", "SL_HIT", "updated"}
    /\ e.about = "alert" => e.outcome \in {"triggered", "False"}

\* C37: with storage working, the write close_position or
\* check_position_levels makes through update_position is applied, and the
\* table a closure leaves no longer holds the position as open
C37_WritesApplied ==
  (/\ call.fn \in {"close_position", "check_position_levels"}
   /\ call.args.db_ok
   /\ call.result.outcome # "error")
    => /\ call.result.wrote = {call.args.position.id}
       /\ call.result.outcome \in {"TP_HIT", "SL_HIT"} =>
            \A i \in DOMAIN call.result.table :
              call.result.table[i].id = call.args.position.id =>
                call.result.table[i].status # "open"

\* C38: calculate_signal_strength on a snapshot whose indicators are the
\* all-defaults set and whose current price is positive returns NEUTRAL
C38_DefaultsAreNeutral ==
  (/\ call.fn = "calculate_signal_strength"
   /\ "indicators" \in DOMAIN call.args.data
   /\ call.args.data.indicators = AsDict(get_default_indicators)
   /\ call.args.data.price.current # Null
   /\ call.args.data.price.current[1] > 0)
    => call.result.signal = "NEUTRAL"

\* C39: when the alerts pass of a cycle is over, every alert it loaded has
\* been evaluated, whether or not the evaluation of another alert on the
\* same symbol raised
C39_EveryLoadedAlertEvaluated ==
  \A t \in Tasks :
    (pc[t] = "ca_next" /\ symbolsQ[t] = << >>) =>
      \A r \in Range(loaded[t]) :
        \E e \in evalLog[t] : e.about = "alert" /\ e.id = r.id

====
